---- MODULE Spec2Model ----
(***************************************************************************)
(* Model of the code-review agent: the tiered context resolver of          *)
(* cli.run_review_logic, context_builder.determine_context, the diff       *)
(* annotator git_utils.create_annotated_file and reviewer.run_review.      *)
(*                                                                         *)
(* Text (paths, names, keywords) is a sequence of one-character strings so *)
(* that Python's substring test `a in b`, str.endswith and str.startswith  *)
(* are computed and not assumed.                                           *)
(***************************************************************************)
EXTENDS Integers, Sequences, FiniteSets, TLC

VARIABLES
    phase,            \* which component this behaviour exercises
    \* ---- cli.run_review_logic, context resolution (cli.py:264-328) ----
    pc,               \* "resolve" | "review" | "crashed" | "reviewed"
    callees,          \* "src": determine_context and run_review as defined in
                      \* the package; "patched": replaced as in tests/test_cli.py
    changed_files,    \* keys of changed_files_map, in dict order
    file_tiers,       \* the three tiers computed at line 264
    max_context_files,
    tier_i,           \* index i of the outer loop (1..3), 4 when exhausted
    file_j,           \* index of the next file of file_tiers[i]
    final_context_content, \* key set of the ContextSet
    seeded,           \* history: the ContextSet at line 266
    oracle_calls,     \* history: number of oracle rounds made
    last_reply,       \* history: the oracle behaviour of the last round
    last_req,         \* history: what determine_context returned last
    last_found,       \* history: find_files_by_names result of the last round
    \* ---- git_utils.create_annotated_file ----
    script,           \* the edit script the diff was made from
    in_hunk,          \* which script positions the diff's hunks cover
    annotated,        \* the rows of the annotated output
    \* ---- reviewer.run_review ----
    review_files,     \* keys of changed_files_map given to run_review
    review_outcome,   \* per file: the oracle behaviour of its review call
    review_pos,       \* index of the next file of the loop at line 155
    review_results,   \* the mapping being built
    review_raised,    \* TRUE when an exception left run_review
    review_context,   \* key set of the final_context_content given to run_review
    review_prompts,   \* per file: the files whose content its messages hold
    \* ---- reviewer._normalize_issue and the hand-over of cli.py:332-357 ----
    issue_in,         \* one element of a parsed reply array
    changed_lines,    \* new-file line numbers of the added lines of the diff
    issue_pc,         \* "raw" | "normalized" | "stored" | "handed"
    issue_out,        \* what _normalize_issue returned or raised
    file_issues,      \* the issues of the file's ReviewResult
    handed,           \* the issues given to the printer or the publisher
    \* ---- reviewer.run_review, lines 187-193 on a reply text ----
    reply_text,       \* raw_response_text, a sequence of tokens
    extracted,        \* what the parse of json_str_cleaned gave
    \* ---- git_utils.extract_dependencies_from_content ----
    dep_path,         \* file_path
    dep_captures,     \* the texts the tree-sitter query captures
    dependencies,     \* the list returned
    \* ---- git_utils.find_files_by_names called on its own ----
    find_names,       \* names_to_find
    find_ignored_paths,
    find_ignored_extensions,
    found,            \* found_files, in os.walk order
    \* ---- cli.run_review_logic from the diff to the exit (cli.py:211-357) ----
    run_pc,           \* "diffed" | "mapped" | "filtered" | "resolving" | "exit"
    deltas,           \* the files the diff text touches, in PatchSet order
    test_keywords,    \* filtering_config['test_keywords']
    pr_env,           \* "none" | "github" | "bitbucket": the PR variables set
    changed_files_map,     \* the dict of lines 214-225, in insertion order
    changed_files_content, \* per key of the map, what get_file_content gave
    unfiltered_map,   \* history: changed_files_map before line 225
    run_calls,        \* history: the calls made to the filter and the publishers
    exit_code,        \* the exit code of the command, -1 while it runs
    \* ---- git_utils.get_diff ----
    parents,          \* the commit graph: per commit, the set of its parents
    base_commit,
    head_commit,
    git_ok,           \* FALSE when the git commands of the call fail
    diffed_from,      \* history: the commit the diff was taken from
    warnings,         \* history: the warnings logged
    diff_text,        \* what get_diff returned or raised
    \* ---- jira_client.add_comment ----
    jira_pc,          \* "call" | "done"
    jira_older,       \* number of other people's comments made before the rest
    jira_comments,    \* the comments of the issue made after those, in order
    jira_http,        \* which request of the call fails, "ok" when none does
    comment_in,       \* the comment argument
    jira_deleted,     \* history: the comments the call deleted
    jira_posted,      \* history: the bodies the call posted
    \* ---- github_client.handle_pr_results, ----
    \* ---- bitbucket_client.cleanup_and_post_all_comments ----
    pub_platform,     \* "github" | "bitbucket"
    pub_account_known, \* Bitbucket: the /user answer holds an account_id
    pub_comments,     \* the comments of the pull request
    pub_ever,         \* history: every comment the pull request ever had
    pub_reviews,      \* GitHub: the reviews of the pull request, in order
    pub_approved,     \* Bitbucket: the agent's approval is on the pull request
    pub_runs,         \* number of publishing runs made
    pub_issues        \* history: len(all_issues) of the last run, -1 before it

resolverVars == <<pc, callees, changed_files, file_tiers, max_context_files, tier_i,
                  file_j, final_context_content, seeded, oracle_calls,
                  last_reply, last_req, last_found>>
annotVars == <<script, in_hunk, annotated>>
reviewVars == <<review_files, review_outcome, review_pos, review_results,
                review_raised, review_context, review_prompts>>
issueVars == <<issue_in, changed_lines, issue_pc, issue_out, file_issues, handed>>
extractVars == <<reply_text, extracted>>
depsVars == <<dep_path, dep_captures, dependencies>>
findVars == <<find_names, find_ignored_paths, find_ignored_extensions, found>>
runVars == <<run_pc, deltas, test_keywords, pr_env, changed_files_map,
             changed_files_content, unfiltered_map, run_calls, exit_code>>
gitVars == <<parents, base_commit, head_commit, git_ok, diffed_from, warnings,
             diff_text>>
jiraVars == <<jira_pc, jira_older, jira_comments, jira_http, comment_in,
              jira_deleted, jira_posted>>
pubVars == <<pub_platform, pub_account_known, pub_comments, pub_ever, pub_reviews,
             pub_approved, pub_runs, pub_issues>>
sideVars == <<runVars, gitVars, jiraVars, pubVars>>
callVars == <<issueVars, extractVars, depsVars, findVars, sideVars>>
vars == <<phase, resolverVars, annotVars, reviewVars, callVars>>

----------------------------------------------------------------------------
(* Text helpers *)

\* str.lower() on the characters the model uses
LowerChar(c) ==
    CASE c = "A" -> "a"
      [] c = "B" -> "b"
      [] c = "C" -> "c"
      [] c = "D" -> "d"
      [] c = "E" -> "e"
      [] c = "F" -> "f"
      [] c = "G" -> "g"
      [] c = "H" -> "h"
      [] c = "I" -> "i"
      [] c = "J" -> "j"
      [] c = "K" -> "k"
      [] c = "L" -> "l"
      [] c = "M" -> "m"
      [] c = "N" -> "n"
      [] c = "O" -> "o"
      [] c = "P" -> "p"
      [] c = "Q" -> "q"
      [] c = "R" -> "r"
      [] c = "S" -> "s"
      [] c = "T" -> "t"
      [] c = "U" -> "u"
      [] c = "V" -> "v"
      [] c = "W" -> "w"
      [] c = "X" -> "x"
      [] c = "Y" -> "y"
      [] c = "Z" -> "z"
      [] OTHER -> c

Lower(s) == [k \in 1..Len(s) |-> LowerChar(s[k])]

\* Python: s.startswith(p)
StartsWith(s, p) == Len(p) <= Len(s) /\ SubSeq(s, 1, Len(p)) = p

\* Python: s.endswith(p)
EndsWith(s, p) == Len(p) <= Len(s) /\ SubSeq(s, Len(s) - Len(p) + 1, Len(s)) = p

\* Python: p in s  (substring)
Contains(s, p) ==
    \E k \in 0..(Len(s) - Len(p)) : SubSeq(s, k + 1, k + Len(p)) = p

\* index of the last "/" of a path, 0 when there is none
LastSlash(p) ==
    IF \E k \in 1..Len(p) : p[k] = "/"
    THEN CHOOSE k \in 1..Len(p) : p[k] = "/" /\ \A m \in (k+1)..Len(p) : p[m] # "/"
    ELSE 0

\* os.walk's `file`: the last component of a path
Basename(p) == SubSeq(p, LastSlash(p) + 1, Len(p))

\* the directory components os.walk descends through to reach p
RECURSIVE SplitDirs(_)
SplitDirs(p) ==
    IF \E k \in 1..Len(p) : p[k] = "/"
    THEN LET k == CHOOSE n \in 1..Len(p) : p[n] = "/" /\ \A m \in 1..(n-1) : p[m] # "/"
         IN <<SubSeq(p, 1, k - 1)>> \o SplitDirs(SubSeq(p, k + 1, Len(p)))
    ELSE <<>>

SeqToSet(s) == {s[k] : k \in 1..Len(s)}

----------------------------------------------------------------------------
(* Bounds *)

\* most changed files in one run
MaxChanged == 4
\* largest configured max_context_files
MaxLimit == 4

----------------------------------------------------------------------------
(* The repository and the configuration the runs are drawn from *)

P_Dto == <<"D", "t", "o", ".", "p", "y">>
P_core == <<"c", "o", "r", "e", ".", "p", "y">>
P_model == <<"m", "o", "d", "e", "l", ".", "t", "s">>
P_page == <<"p", "a", "g", "e", ".", "t", "s">>
P_readme == <<"a", ".", "m", "d">>
P_db == <<"d", "b", ".", "p", "y">>
P_dbc == <<"s", "r", "c", "/", "d", "b", "_", "c", ".", "p", "y">>
P_distdb == <<"d", "i", "s", "t", "/", "d", "b", ".", "j", "s">>
P_dbpng == <<"d", "b", ".", "p", "n", "g">>
P_gitdb == <<".", "g", "i", "t", "/", "d", "b">>

\* files that a commit range may have touched
ChangedCandidates == {P_Dto, P_core, P_model, P_page, P_readme}

\* every file under the repository root (what os.walk can visit)
RepoFiles == ChangedCandidates \cup {P_db, P_dbc, P_distdb, P_dbpng, P_gitdb}

\* filtering_config['ignored_paths'], filtering_config['ignored_extensions']
IgnoredPaths == {<<"d", "i", "s", "t">>}
IgnoredExtensions == {<<".", "p", "n", "g">>}

\* names an oracle reply may ask for
N_db == <<"d", "b">>
N_co == <<"c", "o">>
N_zz == <<"z", "z">>
Names == {N_db, N_co, N_zz}

----------------------------------------------------------------------------
(* cli.prioritize_changed_files *)

Tier1Keywords == {<<"i", "n", "t", "e", "r", "f", "a", "c", "e">>,
                  <<"d", "t", "o">>,
                  <<"m", "o", "d", "e", "l">>,
                  <<"s", "e", "r", "v", "i", "c", "e">>,
                  <<"c", "o", "r", "e">>,
                  <<"a", "b", "s", "t", "r", "a", "c", "t", "i", "o", "n">>}
Tier2Keywords == {<<"c", "o", "n", "t", "r", "o", "l", "l", "e", "r">>,
                  <<"c", "o", "m", "p", "o", "n", "e", "n", "t">>,
                  <<"p", "a", "g", "e">>}

InTier1(path) == \E k \in Tier1Keywords : Contains(Lower(path), k)
InTier2(path) == ~InTier1(path) /\ \E k \in Tier2Keywords : Contains(Lower(path), k)
InTier3(path) == ~InTier1(path) /\ ~(\E k \in Tier2Keywords : Contains(Lower(path), k))

\* faulty variant: `if` where line 31 has `elif`
prioritize_changed_files_if(files) ==
    LET Second(path) == \E k \in Tier2Keywords : Contains(Lower(path), k)
        Rest(path) == ~Second(path)
    IN << SelectSeq(files, InTier1), SelectSeq(files, Second), SelectSeq(files, Rest) >>

\* lines 17-34
prioritize_changed_files(files) ==
    << SelectSeq(files, InTier1), SelectSeq(files, InTier2), SelectSeq(files, InTier3) >>

----------------------------------------------------------------------------
(* git_utils.find_files_by_names *)

\* os.walk prunes a directory named in ignored_paths or starting with "."
Walked(path, ignored_paths) ==
    \A k \in 1..Len(SplitDirs(path)) :
        /\ SplitDirs(path)[k] \notin ignored_paths
        /\ ~StartsWith(SplitDirs(path)[k], <<".">>)

find_files_by_names(files, names_to_find, ignored_paths, ignored_extensions) ==
    IF names_to_find = {} THEN {}
    ELSE { f \in files :
             /\ Walked(f, ignored_paths)
             /\ ~(\E ext \in ignored_extensions : EndsWith(Basename(f), ext))
             /\ \E name_part \in names_to_find : Contains(Basename(f), name_part) }

----------------------------------------------------------------------------
(* context_builder.determine_context *)

\* What the oracle does in one call.  The reply text is described by the
\* properties the parsing code looks at.
ReplyBase ==
    [transport |-> "ok", content |-> "text", fence |-> "none", body |-> "object",
     files_kind |-> "list", files |-> {}, suff_kind |-> "bool", suff |-> TRUE,
     reasoning |-> "ok"]

\* well-formed replies: a JSON object with the three keys, bare or fenced
ValidReplies ==
    { [ReplyBase EXCEPT !.files = fs, !.suff = FALSE] : fs \in SUBSET Names }
    \cup { [ReplyBase EXCEPT !.files = fs, !.suff = TRUE] : fs \in {{}, {N_db}} }
    \cup { [ReplyBase EXCEPT !.fence = fc, !.files = {N_db}, !.suff = FALSE] :
            fc \in {"json", "plain"} }

\* replies that cannot become a ContextRequirements
FailingReplies ==
    { [ReplyBase EXCEPT !.transport = "raise"],
      [ReplyBase EXCEPT !.content = "none"],
      [ReplyBase EXCEPT !.fence = "json_noline"],
      [ReplyBase EXCEPT !.body = "prose"],
      [ReplyBase EXCEPT !.body = "array"],
      [ReplyBase EXCEPT !.body = "scalar"],
      [ReplyBase EXCEPT !.files_kind = "missing", !.suff = FALSE],
      [ReplyBase EXCEPT !.files_kind = "bad", !.suff = FALSE],
      [ReplyBase EXCEPT !.suff_kind = "missing", !.files = {N_db}],
      [ReplyBase EXCEPT !.suff_kind = "bad", !.files = {N_db}],
      [ReplyBase EXCEPT !.reasoning = "missing", !.files = {N_db}, !.suff = FALSE] }

OracleReplies == ValidReplies \cup FailingReplies

NoReply == [ReplyBase EXCEPT !.transport = "none"]

\* the value or the exception of a step
Ok(v) == [exc |-> "", val |-> v]
Exc(e) == [exc |-> e, val |-> <<>>]

\* lines 78-85: client.chat.completions.create(...), then .content.strip()
raw_response_text(reply) ==
    IF reply.transport = "raise" THEN Exc("APIError")
    ELSE IF reply.content = "none" THEN Exc("AttributeError")
    ELSE Ok(reply)

\* lines 89-93: strip a ```json or ``` fence
json_str(reply) ==
    IF reply.fence = "json_noline" THEN Exc("IndexError")
    ELSE Ok([reply EXCEPT !.fence = "none"])

\* line 95: json.loads
parsed_json(text) ==
    IF text.body = "prose" THEN Exc("JSONDecodeError") ELSE Ok(text)

\* line 96: ContextRequirements(**parsed_json), models.py:4-13
ContextRequirements(parsed) ==
    IF parsed.body # "object" THEN Exc("TypeError")
    ELSE IF \/ parsed.files_kind # "list"
            \/ parsed.suff_kind # "bool"
            \/ parsed.reasoning # "ok"
         THEN Exc("ValidationError")
    ELSE Ok([required_additional_files |-> parsed.files,
             is_sufficient |-> parsed.suff,
             reasoning |-> "oracle"])

\* what the two handlers return (lines 102 and 106)
ParseFallback ==
    [required_additional_files |-> {}, is_sufficient |-> TRUE,
     reasoning |-> "Failed to parse LLM response."]
CallFallback ==
    [required_additional_files |-> {}, is_sufficient |-> TRUE,
     reasoning |-> "Error occurred during LLM call, aborting context search."]

\* except (json.JSONDecodeError, ValidationError, IndexError), line 99
InnerCaught == {"JSONDecodeError", "ValidationError", "IndexError"}
\* faulty variant: only a failed oracle call is handled
OuterCaught_transport == {"APIError"}

\* except Exception, line 104
OuterCaught == {"APIError", "AttributeError", "TypeError",
                "JSONDecodeError", "ValidationError", "IndexError"}

\* lines 88-102: the inner try block
inner_try(text) ==
    LET s == json_str(text)
        p == IF s.exc = "" THEN parsed_json(s.val) ELSE s
        v == IF p.exc = "" THEN ContextRequirements(p.val) ELSE p
    IN IF v.exc \in InnerCaught THEN Ok(ParseFallback) ELSE v

\* lines 74-106: the whole function
determine_context(reply) ==
    LET r == raw_response_text(reply)
        v == IF r.exc = "" THEN inner_try(r.val) ELSE r
    IN IF v.exc \in OuterCaught THEN Ok(CallFallback) ELSE v

----------------------------------------------------------------------------
(* cli.run_review_logic: tiered context resolution, lines 264-328 *)

\* keyword arguments of the call at cli.py:283-292
DetermineContextKwargs ==
    {"diff", "commit_messages", "changed_files_content", "jira_details",
     "full_context_content", "file_structure", "current_context_files",
     "llm_config"}

\* keyword arguments of the call at cli.py:321-328
RunReviewKwargs ==
    {"changed_files_map", "final_context_content", "jira_details",
     "review_rules", "llm_config", "focus_areas"}

\* signature of context_builder.determine_context; a replaced callee
\* (a mock) takes any keyword
DetermineContextSig(c) ==
    IF c = "src"
    THEN [params |-> {"diff", "commit_messages", "changed_files_content",
                      "full_context_content", "file_structure",
                      "current_context_files", "llm_config"},
          var_kw |-> FALSE]
    ELSE [params |-> {}, var_kw |-> TRUE]

\* signature of reviewer.run_review; a replaced callee takes any keyword
RunReviewSig(c) ==
    IF c = "src"
    THEN [params |-> {"changed_files_map", "final_context_content",
                      "review_rules", "llm_config", "focus_areas"},
          var_kw |-> FALSE]
    ELSE [params |-> {}, var_kw |-> TRUE]

\* Python's argument binding: every required parameter is given and every
\* keyword is a parameter, else TypeError
Binds(sig, kwargs) ==
    /\ sig.params \subseteq kwargs
    /\ (sig.var_kw \/ kwargs \subseteq sig.params)

\* lines 297-302: the search of the repository for each list of names an
\* oracle reply can hold
FoundByNames ==
    [names_to_find \in SUBSET Names |->
        find_files_by_names(RepoFiles, names_to_find, IgnoredPaths, IgnoredExtensions)]

\* Loop control of lines 275-314 from the top of the inner loop of tier i,
\* about to take its j-th file, to the next oracle call or to the review.
RECURSIVE NextStop(_, _, _)
NextStop(i, j, ctx) ==
    IF i > 3 THEN [pc |-> "review", i |-> 4, j |-> 1]
    ELSE IF file_tiers[i] = <<>> THEN NextStop(i + 1, 1, ctx)          \* line 276
    ELSE IF j <= Len(file_tiers[i]) THEN [pc |-> "resolve", i |-> i, j |-> j]
    ELSE IF Cardinality(ctx) > max_context_files                        \* line 314
         THEN [pc |-> "review", i |-> i, j |-> j]
    ELSE NextStop(i + 1, 1, ctx)

\* faulty variant: the new files replace the ContextSet
AddFiles_replace(ctx, new_files_to_add) == new_files_to_add

\* lines 308-309: the new files are added to the ContextSet
AddFiles(ctx, new_files_to_add) == ctx \cup new_files_to_add

\* faulty variant: the limit is never seen inside a tier
LimitBreak_never(ctx) == FALSE

\* lines 311-313: break out of the inner loop
LimitBreak(ctx) == Cardinality(ctx) > max_context_files

\* all sequences of 1..n distinct changed files (dict order of the map)
RECURSIVE DistinctSeqs(_, _)
DistinctSeqs(S, n) ==
    IF n = 0 THEN {<<>>}
    ELSE LET shorter == DistinctSeqs(S, n - 1)
         IN shorter \cup { Append(q, x) : q \in { r \in shorter : Len(r) = n - 1 },
                                          x \in S }

ChangedMaps ==
    { q \in DistinctSeqs(ChangedCandidates, MaxChanged) :
        /\ q # <<>>
        /\ \A a, b \in 1..Len(q) : a # b => q[a] # q[b] }

NoReq == [required_additional_files |-> {}, is_sufficient |-> FALSE,
          reasoning |-> "none"]

AnnotIdle == /\ script = <<>> /\ in_hunk = <<>> /\ annotated = <<>>
ReviewIdle ==
    /\ review_files = <<>>
    /\ review_outcome = <<>>
    /\ review_pos = 0
    /\ review_results = <<>>
    /\ review_raised = FALSE
    /\ review_context = {}
    /\ review_prompts = <<>>

\* the values of the variables of a component the behaviour does not exercise
IssueIdle ==
    /\ issue_in = <<>>
    /\ changed_lines = {}
    /\ issue_pc = "idle"
    /\ issue_out = <<>>
    /\ file_issues = <<>>
    /\ handed = <<>>
ExtractIdle == /\ reply_text = <<>> /\ extracted = <<>>
DepsIdle == /\ dep_path = <<>> /\ dep_captures = {} /\ dependencies = <<>>
FindIdle ==
    /\ find_names = {}
    /\ find_ignored_paths = {}
    /\ find_ignored_extensions = {}
    /\ found = <<>>
RunIdle ==
    /\ run_pc = "idle"
    /\ deltas = <<>>
    /\ test_keywords = {}
    /\ pr_env = "none"
    /\ changed_files_map = <<>>
    /\ changed_files_content = <<>>
    /\ unfiltered_map = <<>>
    /\ run_calls = <<>>
    /\ exit_code = -1
GitIdle ==
    /\ parents = <<>>
    /\ base_commit = 0
    /\ head_commit = 0
    /\ git_ok = TRUE
    /\ diffed_from = 0
    /\ warnings = <<>>
    /\ diff_text = <<>>
JiraIdle ==
    /\ jira_pc = "idle"
    /\ jira_older = 0
    /\ jira_comments = <<>>
    /\ jira_http = "ok"
    /\ comment_in = <<>>
    /\ jira_deleted = <<>>
    /\ jira_posted = <<>>
PubIdle ==
    /\ pub_platform = "none"
    /\ pub_account_known = FALSE
    /\ pub_comments = {}
    /\ pub_ever = {}
    /\ pub_reviews = <<>>
    /\ pub_approved = FALSE
    /\ pub_runs = 0
    /\ pub_issues = -1
SideIdle == RunIdle /\ GitIdle /\ JiraIdle /\ PubIdle
CallIdle == IssueIdle /\ ExtractIdle /\ DepsIdle /\ FindIdle /\ SideIdle

InitResolver ==
    /\ phase = "resolver"
    /\ callees \in {"src", "patched"}
    /\ changed_files \in ChangedMaps
    /\ max_context_files \in 1..MaxLimit
    /\ file_tiers = prioritize_changed_files(changed_files)   \* line 264
    /\ seeded = SeqToSet(changed_files)                       \* line 266
    /\ final_context_content = SeqToSet(changed_files)
    /\ LET stop == NextStop(1, 1, SeqToSet(changed_files))
       IN pc = stop.pc /\ tier_i = stop.i /\ file_j = stop.j
    /\ oracle_calls = 0
    /\ last_reply = NoReply
    /\ last_req = NoReq
    /\ last_found = {}
    /\ AnnotIdle
    /\ ReviewIdle
    /\ CallIdle

\* lines 283-292 with the shipped determine_context: the call does not bind
DetermineContextTypeError ==
    /\ phase = "resolver"
    /\ pc = "resolve"
    /\ ~Binds(DetermineContextSig(callees), DetermineContextKwargs)
    /\ pc' = "crashed"
    /\ UNCHANGED <<phase, callees, changed_files, file_tiers, max_context_files, tier_i,
                   file_j, final_context_content, seeded, oracle_calls,
                   last_reply, last_req, last_found, annotVars, reviewVars, callVars>>

\* lines 279-313: one pass of the inner loop body for file_tiers[i][j], and
\* the loop control up to the next oracle call
ResolveRound ==
    /\ phase = "resolver"
    /\ pc = "resolve"
    /\ Binds(DetermineContextSig(callees), DetermineContextKwargs)
    /\ \E reply \in OracleReplies :
         LET res == determine_context(reply)
             context_req == res.val
             newly_found_files ==
                 FoundByNames[context_req.required_additional_files]
             new_files_to_add == newly_found_files \ final_context_content
             added == AddFiles(final_context_content, new_files_to_add)
         IN
         /\ oracle_calls' = oracle_calls + 1
         /\ last_reply' = reply
         /\ IF res.exc # ""
            THEN \* an exception leaves determine_context and the run
                 /\ pc' = "crashed"
                 /\ last_req' = NoReq
                 /\ last_found' = {}
                 /\ UNCHANGED <<tier_i, file_j, final_context_content>>
            ELSE
            /\ last_req' = context_req
            /\ IF context_req.is_sufficient
                  \/ context_req.required_additional_files = {}
               THEN \* line 295: continue
                    /\ last_found' = {}
                    /\ UNCHANGED final_context_content
                    /\ LET stop == NextStop(tier_i, file_j + 1, final_context_content)
                       IN pc' = stop.pc /\ tier_i' = stop.i /\ file_j' = stop.j
               ELSE
               /\ last_found' = newly_found_files
               /\ IF new_files_to_add # {}
                  THEN /\ final_context_content' = added
                       /\ IF LimitBreak(added)
                          THEN \* break, then line 314 breaks the outer loop
                               /\ pc' = "review"
                               /\ UNCHANGED <<tier_i, file_j>>
                          ELSE LET stop == NextStop(tier_i, file_j + 1, added)
                               IN pc' = stop.pc /\ tier_i' = stop.i /\ file_j' = stop.j
                  ELSE /\ UNCHANGED final_context_content
                       /\ LET stop == NextStop(tier_i, file_j + 1, final_context_content)
                          IN pc' = stop.pc /\ tier_i' = stop.i /\ file_j' = stop.j
    /\ UNCHANGED <<phase, callees, changed_files, file_tiers, max_context_files, seeded,
                   annotVars, reviewVars, callVars>>

\* lines 321-328: the call of reviewer.run_review with the ContextSet
ReviewCall ==
    /\ phase = "resolver"
    /\ pc = "review"
    /\ pc' = IF Binds(RunReviewSig(callees), RunReviewKwargs)
             THEN "reviewed" ELSE "crashed"
    /\ UNCHANGED <<phase, callees, changed_files, file_tiers, max_context_files, tier_i,
                   file_j, final_context_content, seeded, oracle_calls,
                   last_reply, last_req, last_found, annotVars, reviewVars, callVars>>

NextResolver == DetermineContextTypeError \/ ResolveRound \/ ReviewCall

SpecResolver == InitResolver /\ [][NextResolver]_vars

----------------------------------------------------------------------------
(* Properties of context resolution *)

\* main.py:20, the iteration budget
MAX_ITERATIONS == 3

\* the first tier that holds a file
FirstTier == CHOOSE i \in 1..3 : file_tiers[i] # <<>> /\ \A k \in 1..(i-1) : file_tiers[k] = <<>>

C2_Monotone ==
    /\ [][/\ final_context_content \subseteq final_context_content'
          /\ Cardinality(final_context_content') >= Cardinality(final_context_content)]_vars
    /\ [](pc = "review" => seeded \subseteq final_context_content)

C2_Witness ==
    /\ pc = "review"
    /\ oracle_calls >= 2
    /\ seeded \subseteq final_context_content
    /\ Cardinality(final_context_content) > Cardinality(seeded)

C9_FailSoft ==
    [][( /\ oracle_calls' = oracle_calls + 1
         /\ last_reply' \in FailingReplies )
        => /\ last_req'.is_sufficient
           /\ last_req'.required_additional_files = {}
           /\ final_context_content' = final_context_content
           /\ pc' # "crashed"]_vars

C9_Witness ==
    /\ oracle_calls >= 2
    /\ last_reply.body = "array"
    /\ last_req = CallFallback
    /\ pc = "resolve"

----------------------------------------------------------------------------
(* git_utils.create_annotated_file, lines 310-391 *)

\* longest edit script
MaxScript == 4

\* An edit script is the old and the new file side by side: entry k is a
\* line kept ("c"), added ("+") or removed ("-"); its text is unique.
Scripts ==
    UNION { { [k \in 1..n |-> [op |-> ops[k], text |-> k]] :
                ops \in [1..n -> {"c", "+", "-"}] } : n \in 0..MaxScript }

\* the lines of the pre-change file and of the new file (full_content)
OldLines(sc) == SelectSeq(sc, LAMBDA e : e.op # "+")
NewLines(sc) == SelectSeq(sc, LAMBDA e : e.op # "-")
OldCount(sc, k) == Len(OldLines(SubSeq(sc, 1, k)))
NewCount(sc, k) == Len(NewLines(SubSeq(sc, 1, k)))

\* hunks are the maximal runs of marked positions; a valid diff covers
\* every changed line and has no hunk without a change
HunkFirst(hk, k) == CHOOSE a \in 1..k :
    (\A m \in a..k : hk[m]) /\ (a = 1 \/ ~hk[a - 1])
HunkLast(hk, k) == CHOOSE b \in k..Len(hk) :
    (\A m \in k..b : hk[m]) /\ (b = Len(hk) \/ ~hk[b + 1])

ValidHunks(sc, hk) ==
    /\ \A k \in 1..Len(sc) : sc[k].op # "c" => hk[k]
    /\ \A k \in 1..Len(sc) : hk[k] =>
          \E m \in HunkFirst(hk, k)..HunkLast(hk, k) : sc[m].op # "c"

\* the "@@ -s,l +t,m @@" header of the hunk over positions a..b: a range of
\* length 0 starts at the line before it
HunkHeader(sc, a, b) ==
    LET src_len == OldCount(sc, b) - OldCount(sc, a - 1)
        tgt_len == NewCount(sc, b) - NewCount(sc, a - 1)
    IN [source_start |-> IF src_len > 0 THEN OldCount(sc, a - 1) + 1
                         ELSE OldCount(sc, a - 1),
        target_start |-> IF tgt_len > 0 THEN NewCount(sc, a - 1) + 1
                         ELSE NewCount(sc, a - 1)]

\* unidiff's Line objects of one hunk: an added line has no source_line_no,
\* a removed line no target_line_no (0 stands for None); the counters start
\* at the header's numbers
HunkLines(sc, a, b) ==
    LET h == HunkHeader(sc, a, b)
    IN [k \in 1..(b - a + 1) |->
          LET p == a + k - 1
              src == h.source_start + (OldCount(sc, p - 1) - OldCount(sc, a - 1))
              tgt == h.target_start + (NewCount(sc, p - 1) - NewCount(sc, a - 1))
          IN [line_type |-> sc[p].op,
              source_line_no |-> IF sc[p].op = "+" THEN 0 ELSE src,
              target_line_no |-> IF sc[p].op = "-" THEN 0 ELSE tgt,
              value |-> sc[p].text]]

\* PatchSet(io.StringIO(diff_content)): the hunks in diff order
RECURSIVE PatchFrom(_, _, _)
PatchFrom(sc, hk, k) ==
    IF k > Len(sc) THEN <<>>
    ELSE IF ~hk[k] THEN PatchFrom(sc, hk, k + 1)
    ELSE LET b == HunkLast(hk, k)
         IN << [target_start |-> HunkHeader(sc, k, b).target_start,
                source_start |-> HunkHeader(sc, k, b).source_start,
                lines |-> HunkLines(sc, k, b)] >>
            \o PatchFrom(sc, hk, b + 1)

PatchSet(sc, hk) == PatchFrom(sc, hk, 1)

\* faulty variant: removals are keyed one line late
RemovalKey_late(hunk, line) == hunk.target_start + 1

\* line 369: key = line.target_line_no if line.target_line_no else hunk.target_start
RemovalKey(hunk, line) ==
    IF line.target_line_no # 0 THEN line.target_line_no ELSE hunk.target_start

\* lines 361-371: removals[key], the (old_lineno, text) pairs in diff order
RECURSIVE removals(_, _)
removals(patch, key) ==
    IF patch = <<>> THEN <<>>
    ELSE LET hunk == Head(patch)
         IN SelectSeq(hunk.lines,
                      LAMBDA line : line.line_type = "-" /\ RemovalKey(hunk, line) = key)
            \o removals(Tail(patch), key)

\* lines 364-373 and 383: diff_info.get(lineno, (' ', lineno))
diff_info_get(patch, lineno) ==
    LET hits == { <<h, k>> \in (1..Len(patch)) \X (1..MaxScript + 1) :
                    /\ k <= Len(patch[h].lines)
                    /\ patch[h].lines[k].line_type # "-"
                    /\ patch[h].lines[k].target_line_no = lineno }
    IN IF hits = {} THEN [marker |-> " ", old_no |-> lineno]
       ELSE LET hit == CHOOSE x \in hits : TRUE
                line == patch[hit[1]].lines[hit[2]]
            IN [marker |-> IF line.line_type = "+" THEN "+" ELSE " ",
                old_no |-> line.source_line_no]

\* one row of the output; a blank number column is 0
Row(old, new, marker, text) ==
    [old |-> old, new |-> new, marker |-> marker, text |-> text]

\* faulty variant: the line itself is not shown where removals were shown
LineRows_skip(lines, patch, lineno) ==
    LET rem == removals(patch, lineno)
        info == diff_info_get(patch, lineno)
    IN IF rem # <<>>
       THEN [k \in 1..Len(rem) |-> Row(rem[k].source_line_no, 0, "-", rem[k].value)]
       ELSE << Row(info.old_no, lineno, info.marker, lines[lineno].text) >>

\* lines 376-385: the rows emitted for new-file line `lineno`
LineRows(lines, patch, lineno) ==
    LET rem == removals(patch, lineno)
        info == diff_info_get(patch, lineno)
    IN [k \in 1..Len(rem) |-> Row(rem[k].source_line_no, 0, "-", rem[k].value)]
       \o << Row(info.old_no, lineno, info.marker, lines[lineno].text) >>

RECURSIVE AnnotateFrom(_, _, _)
AnnotateFrom(lines, patch, lineno) ==
    IF lineno > Len(lines) THEN <<>>
    ELSE LineRows(lines, patch, lineno) \o AnnotateFrom(lines, patch, lineno + 1)

\* lines 316-387; the diff text is empty when the diff has no hunk
create_annotated_file(lines, patch) ==
    IF patch = <<>>
    THEN [k \in 1..Len(lines) |-> Row(0, k, " ", lines[k].text)]   \* line 318
    ELSE AnnotateFrom(lines, patch, 1)

ResolverIdle ==
    /\ pc = "idle"
    /\ callees = "src"
    /\ changed_files = <<>>
    /\ file_tiers = <<<<>>, <<>>, <<>>>>
    /\ max_context_files = 0
    /\ tier_i = 0
    /\ file_j = 0
    /\ final_context_content = {}
    /\ seeded = {}
    /\ oracle_calls = 0
    /\ last_reply = NoReply
    /\ last_req = NoReq
    /\ last_found = {}

InitAnnotate ==
    /\ phase = "annotate"
    /\ script \in Scripts
    /\ in_hunk \in [1..Len(script) -> BOOLEAN]
    /\ ValidHunks(script, in_hunk)
    /\ annotated = <<>>
    /\ ResolverIdle
    /\ ReviewIdle
    /\ CallIdle

\* reviewer.py:159: annotated_content = create_annotated_file(content, diff)
Annotate ==
    /\ phase = "annotate"
    /\ phase' = "annotated"
    /\ annotated' = create_annotated_file(NewLines(script), PatchSet(script, in_hunk))
    /\ UNCHANGED <<script, in_hunk, resolverVars, reviewVars, callVars>>

NextAnnotate == Annotate

SpecAnnotate == InitAnnotate /\ [][NextAnnotate]_vars

----------------------------------------------------------------------------
(* Properties of the annotated file *)

NewView(rows) == SelectSeq(rows, LAMBDA r : r.marker # "-")
OldView(rows) == SelectSeq(rows, LAMBDA r : r.marker # "+")
Texts(rows) == [k \in 1..Len(rows) |-> rows[k].text]
DiffIsEmpty == \A k \in 1..Len(in_hunk) : ~in_hunk[k]

\* C3: the rows that are not removed rows are exactly the lines of the new
\* file, in order, numbered 1..n.
C3_NewFileIntact ==
    phase = "annotated" =>
        /\ Texts(NewView(annotated)) = Texts(NewLines(script))
        /\ \A k \in 1..Len(NewView(annotated)) : NewView(annotated)[k].new = k

C3_Witness ==
    /\ phase = "annotated"
    /\ ~DiffIsEmpty
    /\ Len(NewLines(script)) >= 3
    /\ \E k \in 1..Len(annotated) : annotated[k].marker = "-"
    /\ \E k \in 1..Len(annotated) : annotated[k].marker = "+"
    /\ Texts(NewView(annotated)) = Texts(NewLines(script))

\* C4 (as stated): the rows that are not added rows reconstruct the lines of
\* the pre-change file, in order.
C4_OldFileRoundTrip ==
    phase = "annotated" =>
        Texts(OldView(annotated)) = Texts(OldLines(script))

\* the first line after position p that is not removed, 0 when the run of
\* removed lines starting at p ends its hunk
NextKept(sc, hk, p) ==
    IF \E q \in (p + 1)..Len(sc) : sc[q].op # "-" /\ \A m \in p..q : hk[m]
    THEN CHOOSE q \in (p + 1)..Len(sc) :
            /\ sc[q].op # "-"
            /\ \A m \in p..q : hk[m]
            /\ \A m \in (p + 1)..(q - 1) : sc[m].op = "-"
    ELSE 0

\* C5 (as stated): every run of removed lines of a hunk is emitted in
\* original order, each line once and with only its old number, immediately
\* before the row of the new-file line that follows the run in the hunk; so
\* replacing line 2 of a three-line file gives context, removed, added,
\* context.
C5_RemovedBeforeNextLine ==
    phase = "annotated" =>
        /\ \A p \in 1..Len(script) :
             (script[p].op = "-" /\ NextKept(script, in_hunk, p) # 0) =>
                LET q == NextKept(script, in_hunk, p)
                IN \E r \in 1..Len(annotated) :
                     /\ r + (q - p) <= Len(annotated)
                     /\ \A d \in 0..(q - p - 1) :
                          annotated[r + d] =
                              Row(OldCount(script, p + d), 0, "-", script[p + d].text)
                     /\ annotated[r + (q - p)].text = script[q].text
                     /\ \A x \in 1..Len(annotated) :
                          annotated[x].text = script[p].text => x = r
        /\ ( /\ Len(script) = 4
             /\ script[1].op = "c" /\ script[2].op = "-"
             /\ script[3].op = "+" /\ script[4].op = "c"
             /\ \A k \in 1..4 : in_hunk[k] )
           => annotated = << Row(1, 1, " ", 1), Row(2, 0, "-", 2),
                             Row(0, 2, "+", 3), Row(3, 3, " ", 4) >>

\* C6 (as stated): every context row of a non-empty-diff annotation has both
\* numbers, the old one being the new one minus the added lines before it
\* plus the removed lines before it.
C6_ContextOffsets ==
    (phase = "annotated" /\ ~DiffIsEmpty) =>
        \A r \in 1..Len(annotated) :
            annotated[r].marker = " " =>
                LET p == annotated[r].text
                    added_before == Cardinality({m \in 1..(p - 1) : script[m].op = "+"})
                    removed_before == Cardinality({m \in 1..(p - 1) : script[m].op = "-"})
                IN /\ annotated[r].new # 0
                   /\ annotated[r].old # 0
                   /\ annotated[r].old = annotated[r].new - added_before + removed_before

----------------------------------------------------------------------------
(* reviewer.run_review, lines 153-210 *)

\* most files in one review batch
MaxReviewFiles == 2

\* What the oracle does in the review call of one file.  The reply text is
\* described by what lines 183-196 look at: the positions of the first '['
\* and the last ']', whether json.loads or ast.literal_eval accept the text
\* between them, and the kind of each element of the parsed array:
\*   "issue"     an object that normalizes to a valid CodeIssue
\*   "not_dict"  an element that is not an object
\*   "bad_field" an object whose normalized record fails validation (a
\*               suggestion that is not a string)
ReviewReplyBase ==
    [transport |-> "ok", content |-> "text", start_index |-> 0, end_index |-> 9,
     parse |-> "json", elements |-> <<>>]

ElementKinds == {"issue", "not_dict", "bad_field"}

ElementSeqs ==
    {<<>>} \cup { <<x>> : x \in ElementKinds }
           \cup { <<x, y>> : x \in ElementKinds, y \in ElementKinds }

ReviewOutcomes ==
    { [ReviewReplyBase EXCEPT !.transport = "raise"],
      [ReviewReplyBase EXCEPT !.content = "none"],
      [ReviewReplyBase EXCEPT !.start_index = -1, !.end_index = -1],
      [ReviewReplyBase EXCEPT !.start_index = -1, !.end_index = 3],
      [ReviewReplyBase EXCEPT !.start_index = 5, !.end_index = -1],
      [ReviewReplyBase EXCEPT !.start_index = 5, !.end_index = 3],
      [ReviewReplyBase EXCEPT !.parse = "fail"],
      [ReviewReplyBase EXCEPT !.parse = "literal_recursion"],
      [ReviewReplyBase EXCEPT !.parse = "literal", !.elements = <<"issue">>] }
    \cup { [ReviewReplyBase EXCEPT !.elements = es] : es \in ElementSeqs }

\* the replies that are an array of valid records (possibly empty)
GoodOutcomes ==
    { o \in ReviewOutcomes :
        /\ o.transport = "ok" /\ o.content = "text"
        /\ o.start_index = 0 /\ o.end_index = 9
        /\ o.parse \in {"json", "literal"}
        /\ \A k \in 1..Len(o.elements) : o.elements[k] = "issue" }

FailingOutcomes == ReviewOutcomes \ GoodOutcomes

\* lines 176-184: the oracle call and .content.strip()
review_response_text(o) ==
    IF o.transport = "raise" THEN Exc("APIError")
    ELSE IF o.content = "none" THEN Exc("AttributeError")
    ELSE Ok(o)

\* lines 187-191 and 198-200: the text from the first '[' to the last ']'
json_str_cleaned(text) ==
    IF text.start_index # -1 /\ text.end_index # -1
       /\ text.end_index > text.start_index
    THEN Ok(text)
    ELSE Exc("JSONDecodeError")

\* lines 12-26: json.loads, then ast.literal_eval, whose ValueError and
\* SyntaxError re-raise the JSONDecodeError
robust_json_parser(text) ==
    CASE text.parse = "json" -> Ok(text.elements)
      [] text.parse = "literal" -> Ok(text.elements)
      [] text.parse = "literal_recursion" -> Exc("RecursionError")
      [] OTHER -> Exc("JSONDecodeError")

\* lines 28-62 on one element: raw_issue.get fails on a non-object
normalize_issue(file_path, k, elem) ==
    IF elem = "not_dict" THEN Exc("AttributeError")
    ELSE Ok([for_file |-> file_path, index |-> k, valid |-> elem = "issue"])

\* line 195: the list comprehension stops at the first exception
normalized_issues(file_path, elems) ==
    IF \E k \in 1..Len(elems) : normalize_issue(file_path, k, elems[k]).exc # ""
    THEN Exc("AttributeError")
    ELSE Ok([k \in 1..Len(elems) |-> normalize_issue(file_path, k, elems[k]).val])

\* line 196 and models.py:26-35: ReviewResult(issues=normalized_issues)
ReviewResult(issues) ==
    IF \E k \in 1..Len(issues) : ~issues[k].valid
    THEN Exc("ValidationError")
    ELSE Ok([issues |-> issues])

\* except (ValueError, SyntaxError, ValidationError), line 201;
\* JSONDecodeError and ValidationError are ValueErrors
ReviewInnerCaught == {"JSONDecodeError", "ValueError", "SyntaxError", "ValidationError"}

\* faulty variant: only a failed oracle call is handled
ReviewOuterCaught_transport == {"APIError"}

\* except Exception, line 206
ReviewOuterCaught ==
    {"APIError", "AttributeError", "TypeError", "RecursionError", "OverflowError"}
    \cup ReviewInnerCaught

EmptyResult == [issues |-> <<>>]

\* lines 186-204: the inner try block
review_inner_try(file_path, text) ==
    LET c == json_str_cleaned(text)
        p == IF c.exc = "" THEN robust_json_parser(c.val) ELSE c
        n == IF p.exc = "" THEN normalized_issues(file_path, p.val) ELSE p
        v == IF n.exc = "" THEN ReviewResult(n.val) ELSE n
    IN IF v.exc \in ReviewInnerCaught THEN Ok(EmptyResult) ELSE v

\* faulty variant: no handler at line 206
review_one_uncaught(file_path, o) ==
    LET r == review_response_text(o)
    IN IF r.exc = "" THEN review_inner_try(file_path, r.val) ELSE r

\* lines 172-208 for one file: the result stored, or the exception that
\* leaves run_review
review_one(file_path, o) ==
    LET r == review_response_text(o)
        v == IF r.exc = "" THEN review_inner_try(file_path, r.val) ELSE r
    IN IF v.exc \in ReviewOuterCaught THEN Ok(EmptyResult) ELSE v

\* the result of a reply that is an array of valid records
ParsedResult(file_path, o) ==
    [issues |-> [k \in 1..Len(o.elements) |->
                    [for_file |-> file_path, index |-> k, valid |-> TRUE]]]

\* what context resolution may have added to the changed files (cli.py:308)
ResolvedContexts == {{}, {P_db, P_dbc}}

\* lines 157-169 and 176-182: the messages of a file's call hold the system
\* prompt and the annotated content of that file, read from
\* final_context_content
PromptFiles(file_path, context) == {file_path} \cap context

\* keys of the changed_files_map a review is run on
ReviewCandidates == {P_Dto, P_page, P_readme}

ReviewMaps ==
    { q \in DistinctSeqs(ReviewCandidates, MaxReviewFiles) :
        \A a, b \in 1..Len(q) : a # b => q[a] # q[b] }

InitReview ==
    /\ phase = "review"
    /\ review_files \in ReviewMaps
    /\ review_outcome \in [SeqToSet(review_files) -> ReviewOutcomes]
    /\ review_pos = 1
    /\ review_results = <<>>                 \* line 153: the empty mapping
    /\ review_raised = FALSE
    /\ \E added \in ResolvedContexts :
          review_context = SeqToSet(review_files) \cup added
    /\ review_prompts = <<>>
    /\ ResolverIdle
    /\ AnnotIdle
    /\ CallIdle

\* one pass of the loop at line 155
ReviewFile ==
    /\ phase = "review"
    /\ ~review_raised
    /\ review_pos <= Len(review_files)
    /\ LET file_path == review_files[review_pos]
           res == review_one(file_path, review_outcome[file_path])
       IN /\ review_prompts' =
                [f \in DOMAIN review_prompts \cup {file_path} |->
                    IF f = file_path THEN PromptFiles(file_path, review_context)
                    ELSE review_prompts[f]]
          /\ IF res.exc = ""
             THEN /\ review_results' =
                        [f \in DOMAIN review_results \cup {file_path} |->
                            IF f = file_path THEN res.val ELSE review_results[f]]
                  /\ review_pos' = review_pos + 1
                  /\ UNCHANGED review_raised
             ELSE /\ review_raised' = TRUE
                  /\ UNCHANGED <<review_results, review_pos>>
    /\ UNCHANGED <<phase, review_files, review_outcome, review_context, resolverVars,
                   annotVars, callVars>>

\* line 210: return review_results
ReviewReturn ==
    /\ phase = "review"
    /\ ~review_raised
    /\ review_pos > Len(review_files)
    /\ phase' = "review_returned"
    /\ UNCHANGED <<reviewVars, resolverVars, annotVars, callVars>>

NextReview == ReviewFile \/ ReviewReturn

SpecReview == InitReview /\ [][NextReview]_vars

\* C10: run_review returns, its result has exactly the keys of
\* changed_files_map, a file whose oracle call or reply failed has an empty
\* ReviewResult, and every other file has the records of its own reply.
C10_BatchSurvives ==
    /\ ~review_raised
    /\ phase = "review_returned" =>
          /\ DOMAIN review_results = SeqToSet(review_files)
          /\ \A f \in SeqToSet(review_files) :
                review_results[f] =
                    IF review_outcome[f] \in FailingOutcomes THEN EmptyResult
                    ELSE ParsedResult(f, review_outcome[f])

C10_Witness ==
    /\ phase = "review_returned"
    /\ Len(review_files) >= 2
    /\ review_outcome[review_files[1]].elements = <<"issue", "not_dict">>
    /\ review_outcome[review_files[2]].elements = <<"issue", "issue">>
    /\ review_results[review_files[1]] = EmptyResult
    /\ Len(review_results[review_files[2]].issues) = 2

\* the replies whose text holds no record array: no brackets, a "]" that
\* does not follow a "[", or brackets around text that neither json.loads nor
\* ast.literal_eval can read
UnparseableOutcomes ==
    { o \in ReviewOutcomes :
        /\ o.transport = "ok" /\ o.content = "text"
        /\ \/ o.start_index = -1
           \/ o.end_index = -1
           \/ o.end_index <= o.start_index
           \/ o.parse \in {"fail", "literal_recursion"} }

\* C11: a file whose reply text holds no parseable record array gets a
\* ReviewResult with an empty issue list (is_ok() true), and no exception
\* leaves run_review.
C11_UnparseableGivesEmpty ==
    /\ \A f \in DOMAIN review_results :
          review_outcome[f] \in UnparseableOutcomes =>
              review_results[f].issues = <<>>
    /\ (review_pos <= Len(review_files)
          /\ \A k \in 1..Len(review_files) :
                review_outcome[review_files[k]] \in UnparseableOutcomes)
       => ~review_raised
    /\ (review_raised =>
          review_outcome[review_files[review_pos]] \notin UnparseableOutcomes)

C11_Witness ==
    /\ phase = "review_returned"
    /\ \E f \in DOMAIN review_results :
          /\ review_outcome[f].parse = "fail"
          /\ review_results[f].issues = <<>>
    /\ \E f \in DOMAIN review_results :
          /\ review_outcome[f].parse = "literal_recursion"
          /\ review_results[f].issues = <<>>

----------------------------------------------------------------------------
(* Python values as json.loads and ast.literal_eval produce them *)

\* t: the type; n: the integer a number truncates to, the truth of a bool,
\* the length of a list or dict; s: the text of a str, the repr of a float
Val(t, n, s) == [t |-> t, n |-> n, s |-> s]

Absent == Val("absent", 0, <<>>)        \* the key is not in the object
PyNone == Val("none", 0, <<>>)
PyInt(n) == Val("int", n, <<>>)
PyStrVal(s) == Val("str", 0, s)
PyTrue == Val("bool", 1, <<>>)
PyFloat37 == Val("float", 3, <<"3", ".", "7">>)
PyInf == Val("inf", 0, <<"i", "n", "f">>)          \* json.loads("Infinity") or 1e999
PyNaN == Val("nan", 0, <<"n", "a", "n">>)
PyList(n) == Val("list", n, <<>>)       \* [] or [1]
PyDict0 == Val("dict", 0, <<>>)         \* {}

\* Python truth value, as `or` tests it
Truthy(v) ==
    CASE v.t = "none" -> FALSE
      [] v.t = "absent" -> FALSE
      [] v.t \in {"bool", "int", "list", "dict"} -> v.n # 0
      [] v.t = "float" -> TRUE
      [] v.t \in {"inf", "nan"} -> TRUE
      [] v.t = "str" -> v.s # <<>>
      [] OTHER -> FALSE

\* a or b
PyOr(a, b) == IF Truthy(a) THEN a ELSE b

\* str.strip() for the blank
RECURSIVE LStrip(_)
LStrip(s) == IF s # <<>> /\ Head(s) = " " THEN LStrip(Tail(s)) ELSE s
RECURSIVE RStrip(_)
RStrip(s) ==
    IF s # <<>> /\ s[Len(s)] = " " THEN RStrip(SubSeq(s, 1, Len(s) - 1)) ELSE s
Strip(s) == RStrip(LStrip(s))

Digits == <<"0", "1", "2", "3", "4", "5", "6", "7", "8", "9">>
IsDigit(c) == \E d \in 1..10 : Digits[d] = c
DigitVal(c) == (CHOOSE d \in 1..10 : Digits[d] = c) - 1

RECURSIVE DigitsValue(_)
DigitsValue(s) ==
    IF s = <<>> THEN 0
    ELSE 10 * DigitsValue(SubSeq(s, 1, Len(s) - 1)) + DigitVal(s[Len(s)])

\* int(str): blanks around an optional sign and decimal digits
IntOfStr(s) ==
    LET t == Strip(s)
        signed == t # <<>> /\ Head(t) \in {"+", "-"}
        body == IF signed THEN Tail(t) ELSE t
    IN IF body # <<>> /\ \A k \in 1..Len(body) : IsDigit(body[k])
       THEN Ok(IF signed /\ Head(t) = "-" THEN 0 - DigitsValue(body)
               ELSE DigitsValue(body))
       ELSE Exc("ValueError")

\* int(v)
PyIntOf(v) ==
    CASE v.t \in {"int", "bool", "float"} -> Ok(v.n)
      [] v.t = "str" -> IntOfStr(v.s)
      [] v.t = "inf" -> Exc("OverflowError")
      [] v.t = "nan" -> Exc("ValueError")
      [] OTHER -> Exc("TypeError")

RECURSIVE NatToStr(_)
NatToStr(n) ==
    IF n < 10 THEN <<Digits[n + 1]>>
    ELSE NatToStr(n \div 10) \o <<Digits[(n % 10) + 1]>>

\* str(v)
PyStrOf(v) ==
    CASE v.t = "str" -> v.s
      [] v.t = "none" -> <<"N", "o", "n", "e">>
      [] v.t = "bool" -> IF v.n = 1 THEN <<"T", "r", "u", "e">> ELSE <<"F", "a", "l", "s", "e">>
      [] v.t = "int" -> IF v.n < 0 THEN <<"-">> \o NatToStr(0 - v.n) ELSE NatToStr(v.n)
      [] v.t \in {"float", "inf", "nan"} -> v.s
      [] v.t = "list" -> IF v.n = 0 THEN <<"[", "]">> ELSE <<"[", "1", "]">>
      [] OTHER -> <<"{", "}">>

----------------------------------------------------------------------------
(* reviewer._normalize_issue, lines 28-62, and models.CodeIssue *)

\* models.py:15-24, IssueType.__args__ in declaration order
IssueType ==
    << <<"L", "o", "g", "i", "c", "E", "r", "r", "o", "r">>,
       <<"C", "o", "d", "e", "S", "t", "y", "l", "e">>,
       <<"S", "e", "c", "u", "r", "i", "t", "y">>,
       <<"S", "u", "g", "g", "e", "s", "t", "i", "o", "n">>,
       <<"T", "e", "s", "t", "C", "o", "v", "e", "r", "a", "g", "e">>,
       <<"C", "l", "a", "r", "i", "t", "y">>,
       <<"P", "e", "r", "f", "o", "r", "m", "a", "n", "c", "e">>,
       <<"O", "t", "h", "e", "r">> >>

IssueKeys == {"line_number", "line", "lineNumber", "comment", "message",
              "description", "issue_type", "type", "suggestion"}

\* an element of the parsed array: a JSON object with some of the keys, or
\* a value that is not an object
NoFields == [k \in IssueKeys |-> Absent]
Object(fields) == [kind |-> "object", fields |-> fields]
NotObject(kind) == [kind |-> kind, fields |-> NoFields]

\* dict.get(key) and dict.get(key, default)
Get(raw_issue, key) ==
    IF raw_issue.fields[key].t = "absent" THEN PyNone ELSE raw_issue.fields[key]
GetOr(raw_issue, key, default) ==
    IF raw_issue.fields[key].t = "absent" THEN default ELSE raw_issue.fields[key]

\* lines 36-40
line_val(raw_issue) ==
    PyOr(PyOr(Get(raw_issue, "line_number"), Get(raw_issue, "line")),
         GetOr(raw_issue, "lineNumber", PyInt(0)))

\* line 39: except (ValueError, TypeError)
LineCaught == {"ValueError", "TypeError"}

normalized_line_number(raw_issue) ==
    LET r == PyIntOf(line_val(raw_issue))
    IN IF r.exc \in LineCaught THEN Ok(0) ELSE r

\* lines 42-43
comment_val(raw_issue) ==
    PyOr(PyOr(Get(raw_issue, "comment"), Get(raw_issue, "message")),
         GetOr(raw_issue, "description", PyStrVal(<<>>)))

\* line 45
issue_type_val(raw_issue) ==
    PyOr(Get(raw_issue, "issue_type"), Get(raw_issue, "type"))

\* `x in IssueType.__args__`
InIssueType(v) == v.t = "str" /\ \E k \in 1..Len(IssueType) : IssueType[k] = v.s

\* line 51 for one candidate
HasPrefix(comment, issue_type_candidate) ==
    StartsWith(Lower(comment), Lower(issue_type_candidate) \o <<":">>)

\* faulty variant: the comment keeps the prefix
StripPrefix_keep(comment, issue_type_candidate) == comment

\* line 53: comment[len(candidate)+1:].strip()
StripPrefix(comment, issue_type_candidate) ==
    Strip(SubSeq(comment, Len(issue_type_candidate) + 2, Len(comment)))

\* lines 45-57: the category and the comment
category_and_comment(raw_issue) ==
    LET comment == PyStrOf(comment_val(raw_issue))
        v == issue_type_val(raw_issue)
    IN IF Truthy(v) /\ InIssueType(v)
       THEN [issue_type |-> v.s, comment |-> comment]
       ELSE IF \E k \in 1..Len(IssueType) : HasPrefix(comment, IssueType[k])
            THEN LET k == CHOOSE n \in 1..Len(IssueType) :
                              /\ HasPrefix(comment, IssueType[n])
                              /\ \A m \in 1..(n - 1) : ~HasPrefix(comment, IssueType[m])
                 IN [issue_type |-> IssueType[k],
                     comment |-> StripPrefix(comment, IssueType[k])]
            ELSE [issue_type |-> <<"O", "t", "h", "e", "r">>, comment |-> comment]

\* lines 28-62: raw_issue.get on a value that is not a dict raises
\* AttributeError; int() of an infinite float raises OverflowError
_normalize_issue(raw_issue) ==
    IF raw_issue.kind # "object" THEN Exc("AttributeError")
    ELSE LET ln == normalized_line_number(raw_issue)
             cc == category_and_comment(raw_issue)
         IN IF ln.exc # "" THEN ln
            ELSE Ok([line_number |-> ln.val,
                     comment |-> cc.comment,
                     issue_type |-> cc.issue_type,
                     suggestion |-> Get(raw_issue, "suggestion")])

\* models.py:26-30: CodeIssue accepts the normalized record
CodeIssueValid(normalized) ==
    /\ \E k \in 1..Len(IssueType) : IssueType[k] = normalized.issue_type
    /\ normalized.suggestion.t \in {"str", "none"}

\* lines of the new file of the reviewed diff
MaxFileLines == 3

\* values a reply may put under each key
LineNumberVals ==
    {Absent, PyNone, PyInt(0), PyInt(2), PyInt(12), PyStrVal(<<"1", "2">>), PyStrVal(<<" ", "2", " ">>),
     PyStrVal(<<"a", "b", "c">>), PyFloat37, PyInf, PyNaN, PyList(1), PyTrue}
LineVals == {Absent, PyInt(2), PyStrVal(<<"1", "2">>), PyInf}
LineNumberCamelVals == {Absent, PyInt(12), PyNone}
CommentVals ==
    {Absent, PyNone, PyInt(5), PyStrVal(<<>>), PyStrVal(<<"n", "o", "t", "e">>),
     PyStrVal(<<"l", "o", "g", "i", "c", "e", "r", "r", "o", "r", ":", " ", "x", " ">>), PyStrVal(<<"S", "e", "c", "u", "r", "i", "t", "y", ":", "y">>)}
MessageVals == {Absent, PyStrVal(<<"O", "t", "h", "e", "r", ":", " ", "m">>)}
DescriptionVals == {Absent, PyNone}
IssueTypeVals ==
    {Absent, PyStrVal(<<>>), PyStrVal(<<"L", "o", "g", "i", "c", "E", "r", "r", "o", "r">>), PyStrVal(<<"B", "u", "g">>), PyList(1)}
TypeVals == {Absent, PyStrVal(<<"S", "e", "c", "u", "r", "i", "t", "y">>), PyStrVal(<<"b", "u", "g">>)}
SuggestionVals == {Absent, PyNone, PyStrVal(<<"f", "i", "x">>), PyInt(5)}

BaseFields ==
    [NoFields EXCEPT !["comment"] = PyStrVal(<<"n", "o", "t", "e">>),
                     !["issue_type"] = PyStrVal(<<"L", "o", "g", "i", "c", "E", "r", "r", "o", "r">>)]

\* the elements the normalizer is run on: objects whose line keys vary,
\* objects whose comment and category keys vary, values that are not objects
RawIssues ==
    { Object([BaseFields EXCEPT !["line_number"] = a, !["line"] = b,
                                !["lineNumber"] = c, !["suggestion"] = g]) :
        a \in LineNumberVals, b \in LineVals, c \in LineNumberCamelVals,
        g \in {Absent, PyInt(5)} }
    \cup
    { Object([NoFields EXCEPT !["comment"] = c, !["message"] = m,
                              !["description"] = d, !["issue_type"] = i,
                              !["type"] = t, !["line_number"] = a,
                              !["suggestion"] = g]) :
        c \in CommentVals, m \in MessageVals, d \in DescriptionVals,
        i \in IssueTypeVals, t \in TypeVals, a \in {Absent, PyInt(2)},
        g \in SuggestionVals }
    \cup { NotObject(k) : k \in {"int", "str", "list", "null"} }

NoOut == [exc |-> "pending", val |-> <<>>]

InitIssue ==
    /\ phase = "issue"
    /\ issue_in \in RawIssues
    /\ changed_lines \in (SUBSET (1..MaxFileLines)) \ {{}}
    /\ issue_pc = "raw"
    /\ issue_out = NoOut
    /\ file_issues = <<>>
    /\ handed = <<>>
    /\ ExtractIdle /\ DepsIdle /\ FindIdle
    /\ ResolverIdle /\ AnnotIdle /\ ReviewIdle /\ SideIdle

\* reviewer.py:195, one call of _normalize_issue
NormalizeIssue ==
    /\ phase = "issue"
    /\ issue_pc = "raw"
    /\ issue_out' = _normalize_issue(issue_in)
    /\ issue_pc' = "normalized"
    /\ UNCHANGED <<phase, issue_in, changed_lines, file_issues, handed, extractVars,
                   depsVars, findVars, resolverVars, annotVars, reviewVars,
                   sideVars>>

\* reviewer.py:195-208 for a reply array holding this one element: the
\* ReviewResult stored for the file
StoreIssue ==
    /\ phase = "issue"
    /\ issue_pc = "normalized"
    /\ LET v == IF issue_out.exc # "" THEN issue_out
                ELSE IF CodeIssueValid(issue_out.val) THEN Ok(<<issue_out.val>>)
                ELSE Exc("ValidationError")
       IN /\ v.exc = "" \/ v.exc \in ReviewOuterCaught
          /\ file_issues' = IF v.exc = "" THEN v.val ELSE <<>>
    /\ issue_pc' = "stored"
    /\ UNCHANGED <<phase, issue_in, changed_lines, issue_out, handed, extractVars,
                   depsVars, findVars, resolverVars, annotVars, reviewVars,
                   sideVars>>

\* cli.py:332-357: the issues of a result that is not is_ok() go to the
\* publisher or the printer as they are
HandOver ==
    /\ phase = "issue"
    /\ issue_pc = "stored"
    /\ handed' = file_issues
    /\ issue_pc' = "handed"
    /\ UNCHANGED <<phase, issue_in, changed_lines, issue_out, file_issues, extractVars,
                   depsVars, findVars, resolverVars, annotVars, reviewVars,
                   sideVars>>

NextIssue == NormalizeIssue \/ StoreIssue \/ HandOver

SpecIssue == InitIssue /\ [][NextIssue]_vars

\* C12: _normalize_issue returns a normalized record for every element of a
\* parsed reply array and never raises.
C12_NormalizerNeverRaises ==
    (phase = "issue" /\ issue_pc # "raw") => issue_out.exc = ""

\* the category field of a record: its issue_type, or its type when
\* issue_type is missing or empty
CategoryField(raw_issue) ==
    IF Truthy(raw_issue.fields["issue_type"]) THEN raw_issue.fields["issue_type"]
    ELSE raw_issue.fields["type"]

\* C15: every issue of a ReviewResult has a category of the closed enum. The
\* category field is the record's issue_type, or its type when issue_type is
\* missing or empty: a valid category field is kept with the comment as it
\* was; otherwise the category is recovered from a "<Category>:" prefix of
\* the comment, which is stripped; otherwise the category is Other.
C15_CategoryClosed ==
    /\ \A k \in 1..Len(file_issues) : file_issues[k].issue_type \in SeqToSet(IssueType)
    /\ (phase = "issue" /\ issue_pc # "raw" /\ issue_out.exc = "") =>
          LET field == CategoryField(issue_in)
              said == PyStrOf(comment_val(issue_in))
              out == issue_out.val
          IN /\ out.issue_type \in SeqToSet(IssueType)
             /\ InIssueType(field) =>
                   out.issue_type = field.s /\ out.comment = said
             /\ ~InIssueType(field) =>
                   \/ \E c \in SeqToSet(IssueType) :
                         /\ HasPrefix(said, c)
                         /\ out.issue_type = c
                         /\ Lower(said) =
                              Lower(c) \o <<":">>
                              \o SubSeq(Lower(said), Len(c) + 2, Len(said))
                         /\ out.comment = Strip(SubSeq(said, Len(c) + 2, Len(said)))
                   \/ /\ \A c \in SeqToSet(IssueType) : ~HasPrefix(said, c)
                      /\ out.issue_type = <<"O", "t", "h", "e", "r">>
                      /\ out.comment = said

\* C15 as first stated: a valid category supplied under issue_type or under
\* type is the category of the issue.
C15_SuppliedValidKept ==
    (phase = "issue" /\ issue_pc # "raw" /\ issue_out.exc = "") =>
        LET supplied == { issue_in.fields[k].s : k \in
                            { key \in {"issue_type", "type"} :
                                InIssueType(issue_in.fields[key]) } }
        IN supplied # {} => issue_out.val.issue_type \in supplied

C15_Witness ==
    /\ phase = "issue" /\ issue_pc = "stored"
    /\ issue_in.fields["issue_type"] = PyStrVal(<<"B", "u", "g">>)
    /\ issue_in.fields["comment"] = PyStrVal(<<"l", "o", "g", "i", "c", "e", "r", "r", "o", "r", ":", " ", "x", " ">>)
    /\ Len(file_issues) = 1
    /\ file_issues[1].issue_type = <<"L", "o", "g", "i", "c", "E", "r", "r", "o", "r">>
    /\ file_issues[1].comment = <<"x">>

\* the values int() turns into an integer
Coercible(v) ==
    \/ v.t \in {"int", "bool", "float"}
    \/ v.t = "str" /\ IntOfStr(v.s).exc = ""

\* C16: the normalized line_number is an integer taken from the record's
\* line_number, line or lineNumber key and coerced, and is 0 when no such key
\* is present or the value cannot be coerced; {"line": "12"} gives 12.
C16_LineNumberCoerced ==
    (phase = "issue" /\ issue_pc # "raw" /\ issue_in.kind = "object") =>
        LET keys == { k \in {"line_number", "line", "lineNumber"} :
                         issue_in.fields[k].t # "absent" }
        IN /\ issue_out.exc = ""
           /\ issue_out.val.line_number \in Int
           /\ \/ issue_out.val.line_number = 0
              \/ \E k \in keys :
                    /\ Coercible(issue_in.fields[k])
                    /\ issue_out.val.line_number = PyIntOf(issue_in.fields[k]).val
           /\ keys = {} => issue_out.val.line_number = 0
           /\ (keys = {"line"} /\ issue_in.fields["line"] = PyStrVal(<<"1", "2">>))
                 => issue_out.val.line_number = 12

\* C17: every issue handed to the printer or the publisher has the line
\* number of a changed line of the file's diff.
C17_OnlyChangedLinesHanded ==
    (phase = "issue" /\ issue_pc = "handed") =>
        \A k \in 1..Len(handed) : handed[k].line_number \in changed_lines

\* the replies from which a record array is parsed
ArrayOutcomes ==
    { o \in ReviewOutcomes :
        /\ o.transport = "ok" /\ o.content = "text"
        /\ o.start_index # -1 /\ o.end_index > o.start_index
        /\ o.parse \in {"json", "literal"} }

\* the positions of the well-formed records of a reply array, in reply order
WellFormedAt(elems) ==
    SelectSeq([k \in 1..Len(elems) |-> k], LAMBDA k : elems[k] = "issue")

\* C13: the well-formed records of a reply array appear in the file's
\* ReviewResult, in reply order, whatever the other elements of the array are.
C13_GoodRecordsSurvive ==
    \A f \in DOMAIN review_results :
        review_outcome[f] \in ArrayOutcomes =>
            LET at == WellFormedAt(review_outcome[f].elements)
            IN review_results[f].issues =
                  [j \in 1..Len(at) |->
                      [for_file |-> f, index |-> at[j], valid |-> TRUE]]

----------------------------------------------------------------------------
(* reviewer.run_review, lines 187-208, on the text of a reply *)

\* longest reply text, in tokens
MaxTokens == 6

\* a reply text is a sequence of tokens: "[" and "]", "," , "R" for the text
\* of one well-formed record object, "p" for a word of prose
Tokens == {"[", "]", ",", "R", "p"}

RECURSIVE TextsUpTo(_)
TextsUpTo(n) ==
    IF n = 0 THEN {<<>>}
    ELSE LET shorter == TextsUpTo(n - 1)
         IN shorter \cup { Append(t, c) : t \in { u \in shorter : Len(u) = n - 1 },
                                          c \in Tokens }

\* str.find and str.rfind, 0-based, -1 when the character is not there
find(text, c) ==
    IF \E k \in 1..Len(text) : text[k] = c
    THEN (CHOOSE k \in 1..Len(text) :
             text[k] = c /\ \A m \in 1..(k - 1) : text[m] # c) - 1
    ELSE -1
rfind(text, c) ==
    IF \E k \in 1..Len(text) : text[k] = c
    THEN (CHOOSE k \in 1..Len(text) :
             text[k] = c /\ \A m \in (k + 1)..Len(text) : text[m] # c) - 1
    ELSE -1

ParseFail == [ok |-> FALSE, next |-> 0, kind |-> "none", items |-> <<>>]

\* One value of the JSON grammar starting at token i: a record, or an array
\* of values. `lenient` is the Python literal grammar of ast.literal_eval,
\* which also takes a comma before the closing bracket. `off` is the index
\* in the reply of the token before the first one of the text parsed.
RECURSIVE ParseValue(_, _, _, _)
RECURSIVE ParseItems(_, _, _, _)
ParseValue(t, i, lenient, off) ==
    IF i > Len(t) THEN ParseFail
    ELSE IF t[i] = "R"
         THEN [ok |-> TRUE, next |-> i + 1, kind |-> "record", items |-> <<>>]
    ELSE IF t[i] = "["
         THEN IF i + 1 <= Len(t) /\ t[i + 1] = "]"
              THEN [ok |-> TRUE, next |-> i + 2, kind |-> "list", items |-> <<>>]
              ELSE ParseItems(t, i + 1, lenient, off)
    ELSE ParseFail

\* the values of an array from token i up to and including its "]"
ParseItems(t, i, lenient, off) ==
    LET v == ParseValue(t, i, lenient, off)
        item == [kind |-> v.kind, at |-> off + i]
    IN IF ~v.ok \/ v.next > Len(t) THEN ParseFail
       ELSE IF t[v.next] = "]"
            THEN [ok |-> TRUE, next |-> v.next + 1, kind |-> "list",
                  items |-> <<item>>]
       ELSE IF t[v.next] = ","
            THEN IF lenient /\ v.next + 1 <= Len(t) /\ t[v.next + 1] = "]"
                 THEN [ok |-> TRUE, next |-> v.next + 2, kind |-> "list",
                       items |-> <<item>>]
                 ELSE LET rest == ParseItems(t, v.next + 1, lenient, off)
                      IN IF rest.ok
                         THEN [rest EXCEPT !.items = <<item>> \o rest.items]
                         ELSE ParseFail
       ELSE ParseFail

\* json.loads: the whole text is one value
json_loads(t, off) ==
    LET v == ParseValue(t, 1, FALSE, off)
    IN IF v.ok /\ v.next = Len(t) + 1 THEN Ok(v) ELSE Exc("JSONDecodeError")

\* the values of a Python tuple display written without parentheses
RECURSIVE ParseTuple(_, _, _)
ParseTuple(t, i, off) ==
    LET v == ParseValue(t, i, TRUE, off)
        item == [kind |-> v.kind, at |-> off + i]
    IN IF ~v.ok THEN ParseFail
       ELSE IF v.next = Len(t) + 1
            THEN [ok |-> TRUE, next |-> v.next, kind |-> "tuple", items |-> <<item>>]
       ELSE IF t[v.next] = ","
            THEN IF v.next = Len(t)
                 THEN [ok |-> TRUE, next |-> v.next + 1, kind |-> "tuple",
                       items |-> <<item>>]
                 ELSE LET rest == ParseTuple(t, v.next + 1, off)
                      IN IF rest.ok
                         THEN [rest EXCEPT !.items = <<item>> \o rest.items]
                         ELSE ParseFail
       ELSE ParseFail

\* ast.literal_eval: one value, or several separated by commas (a tuple)
literal_eval(t, off) ==
    LET v == ParseValue(t, 1, TRUE, off)
        tup == ParseTuple(t, 1, off)
    IN IF v.ok /\ v.next = Len(t) + 1 THEN Ok(v)
       ELSE IF tup.ok THEN Ok(tup)
       ELSE Exc("SyntaxError")

\* lines 12-26 on a token text
robust_json_parser_text(t, off) ==
    LET j == json_loads(t, off)
    IN IF j.exc = "" THEN j
       ELSE LET a == literal_eval(t, off)
            IN IF a.exc \in {"ValueError", "SyntaxError"} THEN j ELSE a

\* lines 195-197: every element of the parsed value must be a record
issues_of(parsed) ==
    IF parsed.kind = "record" THEN Exc("TypeError")
    ELSE IF \E k \in 1..Len(parsed.items) : parsed.items[k].kind # "record"
         THEN Exc("AttributeError")
    ELSE Ok([k \in 1..Len(parsed.items) |-> parsed.items[k].at])

\* line 188
end_index_of(text) == rfind(text, "]")

\* lines 187-208 for one reply text: the positions in the reply of the
\* records of the file's ReviewResult
review_text(text) ==
    LET start_index == find(text, "[")
        end_index == end_index_of(text)
        cut == IF start_index # -1 /\ end_index # -1 /\ end_index > start_index
               THEN Ok(SubSeq(text, start_index + 1, end_index + 1))
               ELSE Exc("JSONDecodeError")
        p == IF cut.exc = "" THEN robust_json_parser_text(cut.val, start_index)
             ELSE cut
        v == IF p.exc = "" THEN issues_of(p.val) ELSE p
    IN IF v.exc \in ReviewOuterCaught THEN Ok(<<>>) ELSE v

InitExtract ==
    /\ phase = "extract"
    /\ reply_text \in TextsUpTo(MaxTokens)
    /\ extracted = NoOut
    /\ IssueIdle /\ DepsIdle /\ FindIdle
    /\ ResolverIdle /\ AnnotIdle /\ ReviewIdle /\ SideIdle

ExtractReply ==
    /\ phase = "extract"
    /\ extracted = NoOut
    /\ extracted' = review_text(reply_text)
    /\ UNCHANGED <<phase, reply_text, issueVars, depsVars, findVars, resolverVars,
                   annotVars, reviewVars, sideVars>>

NextExtract == ExtractReply

SpecExtract == InitExtract /\ [][NextExtract]_vars

\* depth-counted scan from token i: the index of the "]" that closes the
\* region opened before i, 0 when it is never closed
RECURSIVE CloseOf(_, _, _)
CloseOf(text, i, depth) ==
    IF i > Len(text) THEN 0
    ELSE IF text[i] = "[" THEN CloseOf(text, i + 1, depth + 1)
    ELSE IF text[i] = "]"
         THEN IF depth = 1 THEN i ELSE CloseOf(text, i + 1, depth - 1)
    ELSE CloseOf(text, i + 1, depth)

\* the first balanced top-level bracketed region of a text
FirstRegion(text) ==
    LET s == find(text, "[") + 1
        e == IF s = 0 THEN 0 ELSE CloseOf(text, s + 1, 1)
    IN [from |-> s, to |-> e]

\* C14: when the reply is not valid JSON as a whole, the first balanced
\* top-level bracketed region is parsed and nothing after it: if that region
\* is an array of records, the result holds exactly those records.
C14_FirstRegionParsed ==
    (phase = "extract" /\ extracted # NoOut
        /\ json_loads(reply_text, 0).exc # "") =>
        LET r == FirstRegion(reply_text)
            region == SubSeq(reply_text, r.from, r.to)
            j == json_loads(region, r.from - 1)
        IN (r.to # 0 /\ j.exc = "" /\ issues_of(j.val).exc = "") =>
              /\ extracted.exc = ""
              /\ extracted.val = issues_of(j.val).val

\* C18: the oracle call of every reviewed file receives the content of every
\* file of the ContextSet given to run_review, the files context resolution
\* added included.
C18_ContextReachesOracle ==
    \A f \in DOMAIN review_prompts : review_context \subseteq review_prompts[f]

----------------------------------------------------------------------------
(* git_utils.extract_dependencies_from_content, lines 27-75 *)

\* most captures of one file
MaxCaptures == 3

\* keys of LANGUAGES, lines 14-20
LanguageKeys == {<<".", "c", "s">>, <<".", "p", "y">>, <<".", "t", "s">>, <<".", "t", "s", "x">>, <<".", "j", "s">>}

\* index of the last occurrence of character c in s, 0 when there is none
LastIndexOf(s, c) ==
    IF \E k \in 1..Len(s) : s[k] = c
    THEN CHOOSE k \in 1..Len(s) : s[k] = c /\ \A m \in (k + 1)..Len(s) : s[m] # c
    ELSE 0

\* os.path.splitext: the pair (root, ext); ext starts at the last dot of the
\* last component, unless that dot leads the component
splitext(path) ==
    LET dot == LastIndexOf(path, ".")
        sep == LastSlash(path)
    IN IF dot > sep + 1
       THEN [t |-> "tuple", root |-> SubSeq(path, 1, dot - 1),
             ext |-> SubSeq(path, dot, Len(path))]
       ELSE [t |-> "tuple", root |-> path, ext |-> <<>>]

\* `key in LANGUAGES`: the keys are strings, and a tuple equals no string
InLanguages(key) == key.t = "str" /\ key.s \in LanguageKeys

\* str.strip("'\"")
RECURSIVE StripQuotes(_)
StripQuotes(s) ==
    IF s # <<>> /\ Head(s) \in {"'", "\""} THEN StripQuotes(Tail(s))
    ELSE IF s # <<>> /\ s[Len(s)] \in {"'", "\""}
         THEN StripQuotes(SubSeq(s, 1, Len(s) - 1))
    ELSE s

\* index of the first occurrence of character c in s, 0 when there is none
FirstIndexOf(s, c) == find(s, c) + 1

\* lines 65-71: one captured text to a bare name
final_part(imp) ==
    LET clean_dep == Strip(StripQuotes(imp))
        base == Basename(clean_dep)
        last == SubSeq(base, LastIndexOf(base, ".") + 1, Len(base))
        comma == FirstIndexOf(last, ",")
    IN Strip(IF comma = 0 THEN last ELSE SubSeq(last, 1, comma - 1))

\* lines 27-75; raw_imports is what the tree-sitter query captures
extract_dependencies_from_content(file_path, raw_imports) ==
    LET file_extension == splitext(file_path)                   \* line 31
    IN IF ~InLanguages(file_extension) THEN {}                   \* lines 33-34
       ELSE { final_part(imp) : imp \in raw_imports }

\* file paths and captured texts the function is run on
DepPaths == {<<"m", "a", "i", "n", ".", "p", "y">>, <<"M", "y", "S", "e", "r", "v", "i", "c", "e", ".", "c", "s">>, <<"s", "r", "c", "/", "a", "p", "p", ".", "t", "s">>, <<"a", ".", "m", "d">>, <<"M", "a", "k", "e", "f", "i", "l", "e">>}
Captures == {<<"o", "s">>, <<"m", "y", "_", "p", "r", "o", "j", "e", "c", "t", ".", "u", "t", "i", "l", "s">>, <<"S", "y", "s", "t", "e", "m", ".", "T", "e", "x", "t">>, <<"I", "M", "y", "S", "e", "r", "v", "i", "c", "e">>,
             <<"'", ".", "/", "a", "p", "i", "/", "c", "l", "i", "e", "n", "t", "'">>}

InitDeps ==
    /\ phase = "deps"
    /\ dep_path \in DepPaths
    /\ dep_captures \in { c \in SUBSET Captures : Cardinality(c) <= MaxCaptures }
    /\ dependencies = NoOut
    /\ IssueIdle /\ ExtractIdle /\ FindIdle
    /\ ResolverIdle /\ AnnotIdle /\ ReviewIdle /\ SideIdle

ExtractDependencies ==
    /\ phase = "deps"
    /\ dependencies.exc = "pending"
    /\ dependencies' = Ok(extract_dependencies_from_content(dep_path, dep_captures))
    /\ UNCHANGED <<phase, dep_path, dep_captures, issueVars, extractVars, findVars,
                   resolverVars, annotVars, reviewVars, sideVars>>

NextDeps == ExtractDependencies

SpecDeps == InitDeps /\ [][NextDeps]_vars

\* the last segment of a dotted or slashed name, without quotes
BareName(imp) ==
    LET q == StripQuotes(imp)
        cut == IF LastIndexOf(q, ".") > LastIndexOf(q, "/")
               THEN LastIndexOf(q, ".") ELSE LastIndexOf(q, "/")
    IN SubSeq(q, cut + 1, Len(q))

\* C19: for a file whose extension has a registered grammar, the result is
\* the set of bare final-segment names of the import targets and base types
\* of the content: os and my_project.utils give {os, utils}.
C19_BareNamesReturned ==
    (phase = "deps" /\ dependencies.exc = ""
        /\ splitext(dep_path).ext \in LanguageKeys) =>
        /\ dependencies.val = { BareName(imp) : imp \in dep_captures }
        /\ dep_captures = {<<"o", "s">>, <<"m", "y", "_", "p", "r", "o", "j", "e", "c", "t", ".", "u", "t", "i", "l", "s">>}
              => dependencies.val = {<<"o", "s">>, <<"u", "t", "i", "l", "s">>}

----------------------------------------------------------------------------
(* git_utils.find_files_by_names, lines 168-194, as the walk it makes *)

\* the tree under root_dir the search is run on
P_libdistdb == <<"l", "i", "b", "/", "d", "i", "s", "t", "/", "d", "b", ".", "t", "s">>
P_srcxdb == <<"s", "r", "c", "/", ".", "x", "/", "d", "b", ".", "p", "y">>
P_srcdist == <<"s", "r", "c", "/", "d", "i", "s", "t">>
FindTree == RepoFiles \cup {P_libdistdb, P_srcxdb, P_srcdist}

\* the arguments the search is run with
N_py == <<"p", "y">>
N_di == <<"d", "i">>
FindNames == Names \cup {N_py, N_di}
FindIgnoredPaths == {<<"d", "i", "s", "t">>, <<"s", "r", "c">>}
FindIgnoredExtensions == {<<".", "p", "n", "g">>, <<".", "p", "y">>}

\* the members of a set in the order a directory listing gives them
RECURSIVE SetToSeq(_)
SetToSeq(S) ==
    IF S = {} THEN <<>>
    ELSE LET x == CHOOSE y \in S : TRUE IN <<x>> \o SetToSeq(S \ {x})

HasSlash(p) == \E k \in 1..Len(p) : p[k] = "/"

\* what follows the directory prefix in a path below it
Below(path, prefix) == SubSeq(path, Len(prefix) + 1, Len(path))

\* os.walk's `files` and `dirs` of the directory with this prefix
FilesIn(tree, prefix) ==
    { Below(f, prefix) : f \in { g \in tree : StartsWith(g, prefix)
                                              /\ ~HasSlash(Below(g, prefix)) } }
DirsIn(tree, prefix) ==
    { SplitDirs(Below(f, prefix))[1] :
        f \in { g \in tree : StartsWith(g, prefix) /\ HasSlash(Below(g, prefix)) } }

\* faulty variant: the path is appended once for every name it contains
Appended_each(prefix, file, names_set, ignored_extensions) ==
    IF \E ext \in ignored_extensions : EndsWith(file, ext) THEN <<>>
    ELSE [k \in 1..Cardinality({ n \in names_set : Contains(file, n) }) |->
             prefix \o file]

\* lines 185-191 for one file of a directory
Appended(prefix, file, names_set, ignored_extensions) ==
    IF \E ext \in ignored_extensions : EndsWith(file, ext) THEN <<>>
    ELSE IF \E name_part \in names_set : Contains(file, name_part)
         THEN <<prefix \o file>>
    ELSE <<>>

\* lines 181-191: the directory with this prefix, then the directories
\* below it that line 182 keeps
RECURSIVE WalkFiles(_, _, _, _)
WalkFiles(prefix, files, names_set, ignored_extensions) ==
    IF files = <<>> THEN <<>>
    ELSE Appended(prefix, Head(files), names_set, ignored_extensions)
         \o WalkFiles(prefix, Tail(files), names_set, ignored_extensions)

RECURSIVE os_walk(_, _, _, _, _)
RECURSIVE WalkDirs(_, _, _, _, _, _)
os_walk(tree, prefix, names_set, ignored_paths, ignored_extensions) ==
    LET files == SetToSeq(FilesIn(tree, prefix))
        dirs == SetToSeq({ d \in DirsIn(tree, prefix) :
                             d \notin ignored_paths /\ ~StartsWith(d, <<".">>) })
    IN WalkFiles(prefix, files, names_set, ignored_extensions)
       \o WalkDirs(tree, prefix, dirs, names_set, ignored_paths, ignored_extensions)
WalkDirs(tree, prefix, dirs, names_set, ignored_paths, ignored_extensions) ==
    IF dirs = <<>> THEN <<>>
    ELSE os_walk(tree, prefix \o Head(dirs) \o <<"/">>, names_set, ignored_paths,
                 ignored_extensions)
         \o WalkDirs(tree, prefix, Tail(dirs), names_set, ignored_paths,
                     ignored_extensions)

\* lines 168-194: the list returned
found_files(tree, names_to_find, ignored_paths, ignored_extensions) ==
    IF names_to_find = {} THEN <<>>
    ELSE os_walk(tree, <<>>, names_to_find, ignored_paths, ignored_extensions)

InitFind ==
    /\ phase = "find"
    /\ find_names \in SUBSET FindNames
    /\ find_ignored_paths \in SUBSET FindIgnoredPaths
    /\ find_ignored_extensions \in SUBSET FindIgnoredExtensions
    /\ found = NoOut
    /\ IssueIdle /\ ExtractIdle /\ DepsIdle
    /\ ResolverIdle /\ AnnotIdle /\ ReviewIdle /\ SideIdle

FindFiles ==
    /\ phase = "find"
    /\ found.exc = "pending"
    /\ found' = Ok(found_files(FindTree, find_names, find_ignored_paths,
                               find_ignored_extensions))
    /\ UNCHANGED <<phase, find_names, find_ignored_paths, find_ignored_extensions,
                   issueVars, extractVars, depsVars, resolverVars, annotVars,
                   reviewVars, sideVars>>

NextFind == FindFiles

SpecFind == InitFind /\ [][NextFind]_vars

----------------------------------------------------------------------------
(* cli.run_review_logic for a commit range, from the diff text of line 211 *)
(* to the exit of the command                                              *)

MaxTouched == 2

\* a file the diff touches, as unidiff's PatchedFile shows it
Delta(path, change) == [path |-> path, change |-> change]
P_Testdb == <<"T", "e", "s", "t", "/", "d", "b", ".", "p", "y">>
P_spec == <<"s", "r", "c", "/", "s", "p", "e", "c">>
P_testa == <<"t", "e", "s", "t", "_", "a", ".", "p", "y">>
DeltaCandidates ==
    {Delta(P_testa, "modified"), Delta(P_readme, "deleted"), Delta(P_model, "deleted"),
     Delta(P_Testdb, "modified"), Delta(P_spec, "added")}

\* the "--- " and "+++ " names git writes for a file
DevNull == <<"/", "d", "e", "v", "/", "n", "u", "l", "l">>
source_file(d) == IF d.change = "added" THEN DevNull ELSE <<"a", "/">> \o d.path
target_file(d) == IF d.change = "deleted" THEN DevNull ELSE <<"b", "/">> \o d.path

\* git_utils.get_file_content, lines 133-146
get_file_content(file_path) ==
    IF Contains(file_path, <<"n", "u", "l", "l">>) THEN "empty"
    ELSE IF file_path \in RepoFiles \cup {P_Testdb, P_spec, P_testa} THEN "content"
    ELSE "File not found"

\* d[key] = value on a dict kept as its items in insertion order
RECURSIVE DictSet(_, _, _)
DictSet(items, key, value) ==
    IF items = <<>> THEN <<[key |-> key, value |-> value]>>
    ELSE IF Head(items).key = key
         THEN <<[key |-> key, value |-> value]>> \o Tail(items)
    ELSE <<Head(items)>> \o DictSet(Tail(items), key, value)

Keys(items) == [k \in 1..Len(items) |-> items[k].key]

\* lines 214-218: the loop over the PatchSet
RECURSIVE BuildMap(_, _)
BuildMap(patch, items) ==
    IF patch = <<>> THEN items
    ELSE LET patched_file == Head(patch)
             file_path == SubSeq(target_file(patched_file), 3,
                                 Len(target_file(patched_file)))
         IN BuildMap(Tail(patch), DictSet(items, file_path, patched_file))

RECURSIVE BuildContent(_, _)
BuildContent(patch, items) ==
    IF patch = <<>> THEN items
    ELSE LET file_path == SubSeq(target_file(Head(patch)), 3,
                                 Len(target_file(Head(patch))))
         IN BuildContent(Tail(patch),
                         DictSet(items, file_path, get_file_content(file_path)))

\* faulty variant: the components are compared as they are written
path_parts_cased(path) == SeqToSet(SplitDirs(path)) \cup {Basename(path)}

\* line 97: the lowercased components of the path (os.path.normpath leaves
\* the paths git writes as they are)
path_parts(path) == { Lower(part) : part \in SeqToSet(SplitDirs(path)) \cup {Basename(path)} }

\* cli.filter_test_files, lines 85-105
filter_test_files(items, keywords) ==
    LET Kept(e) == path_parts(e.key) \cap keywords = {}
    IN SelectSeq(items, Kept)

TestKeywordSets == {{<<"t", "e", "s", "t">>, <<"s", "p", "e", "c">>}, {<<"T", "e", "s", "t">>}}

\* a call of a publisher with the issue list it is given
Call(fn, issues) == [fn |-> fn, issues |-> issues]

\* faulty variant: nothing is published when every file was a test file
EmptyPublish_skip(env) == <<>>

\* lines 233-238: the publisher call of the branch taken when the filter
\* leaves nothing
EmptyPublish(env) ==
    IF env \in {"bitbucket", "both"}
    THEN <<Call("bitbucket_client.cleanup_and_post_all_comments", <<>>)>>
    ELSE IF env = "github" THEN <<Call("github_client.handle_pr_results", <<>>)>>
    ELSE <<>>

\* lines 342-348: the publisher call after the review
ResultPublish(env, all_issues) ==
    IF env \in {"github", "both"}
    THEN <<Call("github_client.handle_pr_results", all_issues)>>
    ELSE IF env = "bitbucket"
    THEN <<Call("bitbucket_client.cleanup_and_post_all_comments", all_issues)>>
    ELSE <<>>

\* config.get('max_context_files', 25), line 167
DefaultMaxContextFiles == 25

TouchedSeqs ==
    { q \in DistinctSeqs(DeltaCandidates, MaxTouched) :
        \A a, b \in 1..Len(q) : a # b => q[a].path # q[b].path }

InitRun ==
    /\ phase = "run"
    /\ run_pc = "diffed"
    /\ deltas \in TouchedSeqs
    /\ test_keywords \in TestKeywordSets
    /\ pr_env \in {"none", "github", "bitbucket", "both"}
    /\ changed_files_map = <<>>
    /\ changed_files_content = <<>>
    /\ unfiltered_map = <<>>
    /\ run_calls = <<>>
    /\ exit_code = -1
    /\ pc = "idle"
    /\ callees \in {"src", "patched"}
    /\ changed_files = <<>>
    /\ file_tiers = <<<<>>, <<>>, <<>>>>
    /\ max_context_files = DefaultMaxContextFiles
    /\ tier_i = 0
    /\ file_j = 0
    /\ final_context_content = {}
    /\ seeded = {}
    /\ oracle_calls = 0
    /\ last_reply = NoReply
    /\ last_req = NoReq
    /\ last_found = {}
    /\ AnnotIdle /\ ReviewIdle
    /\ IssueIdle /\ ExtractIdle /\ DepsIdle /\ FindIdle
    /\ GitIdle /\ JiraIdle /\ PubIdle

\* lines 213-218
BuildChangedMap ==
    /\ phase = "run"
    /\ run_pc = "diffed"
    /\ changed_files_map' = BuildMap(deltas, <<>>)
    /\ changed_files_content' = BuildContent(deltas, <<>>)
    /\ unfiltered_map' = BuildMap(deltas, <<>>)
    /\ run_pc' = "mapped"
    /\ UNCHANGED <<phase, deltas, test_keywords, pr_env, run_calls, exit_code,
                   resolverVars, annotVars, reviewVars, issueVars, extractVars,
                   depsVars, findVars, gitVars, jiraVars,
                   pubVars>>

\* lines 220-222: nothing changed, the command ends
NoChangedFiles ==
    /\ phase = "run"
    /\ run_pc = "mapped"
    /\ changed_files_content = <<>>
    /\ run_pc' = "exit"
    /\ exit_code' = 0
    /\ UNCHANGED <<phase, deltas, test_keywords, pr_env, changed_files_map,
                   changed_files_content, unfiltered_map, run_calls,
                   resolverVars, annotVars, reviewVars, issueVars, extractVars,
                   depsVars, findVars, gitVars, jiraVars,
                   pubVars>>

\* lines 224-225
FilterTests ==
    /\ phase = "run"
    /\ run_pc = "mapped"
    /\ changed_files_content # <<>>
    /\ changed_files_map' = filter_test_files(changed_files_map, test_keywords)
    /\ run_calls' = Append(run_calls, Call("filter_test_files", <<>>))
    /\ run_pc' = "filtered"
    /\ UNCHANGED <<phase, deltas, test_keywords, pr_env, changed_files_content,
                   unfiltered_map, exit_code,
                   resolverVars, annotVars, reviewVars, issueVars, extractVars,
                   depsVars, findVars, gitVars, jiraVars,
                   pubVars>>

\* lines 230-240: only test files changed
OnlyTestFiles ==
    /\ phase = "run"
    /\ run_pc = "filtered"
    /\ changed_files_map = <<>>
    /\ run_calls' = run_calls \o EmptyPublish(pr_env)
    /\ run_pc' = "exit"
    /\ exit_code' = 0
    /\ UNCHANGED <<phase, deltas, test_keywords, pr_env, changed_files_map,
                   changed_files_content, unfiltered_map,
                   resolverVars, annotVars, reviewVars, issueVars, extractVars,
                   depsVars, findVars, gitVars, jiraVars,
                   pubVars>>

\* lines 242-272: the contents are read again and context resolution starts
StartResolution ==
    /\ phase = "run"
    /\ run_pc = "filtered"
    /\ changed_files_map # <<>>
    /\ changed_files_content' =
          [k \in 1..Len(changed_files_map) |->
              [key |-> changed_files_map[k].key,
               value |-> get_file_content(changed_files_map[k].key)]]
    /\ run_pc' = "resolving"
    /\ phase' = "resolver"
    /\ changed_files' = Keys(changed_files_map)
    /\ file_tiers' = prioritize_changed_files(Keys(changed_files_map))
    /\ seeded' = SeqToSet(Keys(changed_files_map))
    /\ final_context_content' = SeqToSet(Keys(changed_files_map))
    /\ LET stop == NextStop(1, 1, SeqToSet(Keys(changed_files_map)))'
       IN pc' = stop.pc /\ tier_i' = stop.i /\ file_j' = stop.j
    /\ UNCHANGED <<deltas, test_keywords, pr_env, changed_files_map,
                   unfiltered_map, run_calls, exit_code,
                   callees, max_context_files, oracle_calls, last_reply, last_req,
                   last_found,
                   annotVars, reviewVars, issueVars, extractVars,
                   depsVars, findVars, gitVars, jiraVars,
                   pubVars>>

\* lines 330-357: the results are published or printed and the command ends
PublishResults ==
    /\ phase = "resolver"
    /\ run_pc = "resolving"
    /\ pc = "reviewed"
    /\ \E all_issues \in {<<>>, <<"issue">>} :
          run_calls' = run_calls \o ResultPublish(pr_env, all_issues)
    /\ run_pc' = "exit"
    /\ exit_code' = 0
    /\ UNCHANGED <<phase, deltas, test_keywords, pr_env, changed_files_map,
                   changed_files_content, unfiltered_map,
                   resolverVars, annotVars, reviewVars, issueVars, extractVars,
                   depsVars, findVars, gitVars, jiraVars,
                   pubVars>>

\* an exception that left determine_context or run_review ends the command
RunCrashed ==
    /\ phase = "resolver"
    /\ run_pc = "resolving"
    /\ pc = "crashed"
    /\ run_pc' = "exit"
    /\ exit_code' = 1
    /\ UNCHANGED <<phase, deltas, test_keywords, pr_env, changed_files_map,
                   changed_files_content, unfiltered_map, run_calls,
                   resolverVars, annotVars, reviewVars, issueVars, extractVars,
                   depsVars, findVars, gitVars, jiraVars,
                   pubVars>>

NextRun ==
    \/ BuildChangedMap \/ NoChangedFiles \/ FilterTests \/ OnlyTestFiles
    \/ StartResolution \/ DetermineContextTypeError \/ ResolveRound \/ ReviewCall
    \/ PublishResults \/ RunCrashed

SpecRun == InitRun /\ [][NextRun]_vars

\* C21 (as stated): after the loop of lines 214-218 the map has one entry
\* for every file the diff touches, keyed by that file's repository path, so
\* no two touched files share a key.
C21_OneEntryPerTouchedFile ==
    (run_pc \notin {"idle", "diffed"}) =>
        /\ Len(unfiltered_map) = Len(deltas)
        /\ \A k \in 1..Len(deltas) :
              \E m \in 1..Len(unfiltered_map) :
                  /\ unfiltered_map[m].key = deltas[k].path
                  /\ unfiltered_map[m].value = deltas[k]

\* the path has a component (a directory or the file name) that, lowercased,
\* is the word
HasComponent(path, word) ==
    \E a, b \in 1..Len(path) :
        /\ a <= b
        /\ \A k \in a..b : path[k] # "/"
        /\ a = 1 \/ path[a - 1] = "/"
        /\ b = Len(path) \/ path[b + 1] = "/"
        /\ Lower(SubSeq(path, a, b)) = word

\* C26: the filter returns, in their order and with their diffs, exactly the
\* entries of the map whose path has no component that lowercased equals a
\* test keyword: nothing is added and no such path is kept.
C26_FilterExact ==
    (run_pc \notin {"idle", "diffed", "mapped"}) =>
        LET NoTestPart(e) == \A w \in test_keywords : ~HasComponent(e.key, w)
        IN /\ changed_files_map = SelectSeq(unfiltered_map, NoTestPart)
           /\ \A k \in 1..Len(changed_files_map) :
                 /\ \E m \in 1..Len(unfiltered_map) :
                       unfiltered_map[m] = changed_files_map[k]
                 /\ \A w \in test_keywords : ~HasComponent(changed_files_map[k].key, w)

\* the file below a directory named Test is dropped, test_a.py stays
C26_Witness ==
    /\ run_pc = "filtered"
    /\ test_keywords = {<<"t", "e", "s", "t">>, <<"s", "p", "e", "c">>}
    /\ Keys(unfiltered_map) = <<P_Testdb, P_testa>>
    /\ Keys(changed_files_map) = <<P_testa>>
    /\ changed_files_map[1].value = Delta(P_testa, "modified")

Publishers == {"github_client.handle_pr_results",
               "bitbucket_client.cleanup_and_post_all_comments"}

\* C30: when the filter leaves nothing of a non-empty map, no oracle call is
\* made (context resolution and the review never start) and the command ends
\* with exit code 0; where the variables of a pull request are set, a
\* publisher was called once, with an empty issue list, before the exit.
C30_OnlyTestsNoOracle ==
    (run_pc \in {"filtered", "exit"} /\ unfiltered_map # <<>>
        /\ changed_files_map = <<>>) =>
        /\ oracle_calls = 0
        /\ pc = "idle"
        /\ phase = "run"
        /\ run_pc = "exit" =>
              /\ exit_code = 0
              /\ LET published == SelectSeq(run_calls, LAMBDA c : c.fn \in Publishers)
                 IN IF pr_env = "none" THEN published = <<>>
                    ELSE /\ Len(published) = 1
                         /\ published[1].issues = <<>>

\* only Test/db.py changed, in a GitHub pull request
C30_Witness ==
    /\ run_pc = "exit"
    /\ pr_env = "github"
    /\ Keys(unfiltered_map) = <<P_Testdb>>
    /\ changed_files_map = <<>>
    /\ run_calls = <<Call("filter_test_files", <<>>),
                     Call("github_client.handle_pr_results", <<>>)>>

\* C25 (as stated): a run over a range with a file left after the filter, in
\* which every oracle answer seen was "sufficient", ends with exit code 0,
\* after one call of the filter and one call of reviewer.run_review.
C25_RunsToCompletion ==
    (run_pc = "exit" /\ changed_files_map # <<>>
        /\ (oracle_calls > 0 => last_req.is_sufficient)) =>
        /\ exit_code = 0
        /\ pc = "reviewed"
        /\ Len(SelectSeq(run_calls, LAMBDA c : c.fn = "filter_test_files")) = 1

----------------------------------------------------------------------------
(* git_utils.get_diff, lines 77-92, on a commit graph *)

MaxCommits == 4

Commits == 1..MaxCommits

\* the commit graphs: a commit has at most two parents, all made before it
Graphs ==
    { g \in [Commits -> SUBSET Commits] :
        \A c \in Commits : /\ \A q \in g[c] : q < c
                           /\ Cardinality(g[c]) <= 2 }

\* the commits reachable from c, c included
RECURSIVE Ancestors(_, _)
Ancestors(g, c) == {c} \cup UNION { Ancestors(g, q) : q \in g[c] }

\* every commit records one change of its own; the tree of a commit holds
\* the changes of the commits it descends from
Tree(g, c) == Ancestors(g, c)

\* repo.merge_base(a, b): the best common ancestors, none when the histories
\* are unrelated
merge_base(g, a, b) ==
    LET common == Ancestors(g, a) \cap Ancestors(g, b)
    IN { m \in common : \A n \in common \ {m} : m \notin Ancestors(g, n) }

\* repo.git.diff(a, b): what b's tree has and a's has not, and the reverse
git_diff(g, a, b) ==
    [added |-> Tree(g, b) \ Tree(g, a), removed |-> Tree(g, a) \ Tree(g, b)]

\* faulty variant: the two revisions are always diffed directly
DiffStart_direct(mb, base) == base

\* lines 84-89: the commit the diff is taken from, given merge_base[0]
DiffStart(mb, base) == IF mb = 0 THEN base ELSE mb

InitGit ==
    /\ phase = "git"
    /\ parents \in Graphs
    /\ base_commit \in Commits
    /\ head_commit \in Commits
    /\ git_ok \in BOOLEAN
    /\ diffed_from = 0
    /\ warnings = <<>>
    /\ diff_text = NoOut
    /\ ResolverIdle /\ AnnotIdle /\ ReviewIdle
    /\ IssueIdle /\ ExtractIdle /\ DepsIdle /\ FindIdle
    /\ RunIdle /\ JiraIdle /\ PubIdle

\* lines 79-92
GetDiff ==
    /\ phase = "git"
    /\ diff_text.exc = "pending"
    /\ IF ~git_ok
       THEN \* lines 90-92: the error is logged and raised again
            /\ diff_text' = Exc("GitCommandError")
            /\ UNCHANGED <<diffed_from, warnings>>
       ELSE LET bases == merge_base(parents, base_commit, head_commit)
            IN IF bases = {}
               THEN /\ warnings' = Append(warnings, "Could not find a merge base")
                    /\ diffed_from' = DiffStart(0, base_commit)
                    /\ diff_text' = Ok(git_diff(parents, DiffStart(0, base_commit),
                                                head_commit))
               ELSE \E first \in bases :    \* merge_base[0]
                    /\ UNCHANGED warnings
                    /\ diffed_from' = DiffStart(first, base_commit)
                    /\ diff_text' = Ok(git_diff(parents, DiffStart(first, base_commit),
                                                head_commit))
    /\ UNCHANGED <<phase, parents, base_commit, head_commit, git_ok,
                   resolverVars, annotVars, reviewVars, issueVars, extractVars,
                   depsVars, findVars, runVars, jiraVars, pubVars>>

NextGit == GetDiff

SpecGit == InitGit /\ [][NextGit]_vars

\* C22: when the two revisions have a common ancestor the diff is taken from
\* a merge base of theirs to the head, and no change that only the base
\* revision has is in it; when they have none the diff is taken from the
\* base to the head and returned with one warning. The call raises only
\* when a git command fails.
C22_MergeBaseDiff ==
    (phase = "git" /\ diff_text.exc # "pending") =>
        LET common == Ancestors(parents, base_commit)
                      \cap Ancestors(parents, head_commit)
            base_only == Tree(parents, base_commit) \ Tree(parents, head_commit)
        IN /\ diff_text.exc # "" => ~git_ok
           /\ (diff_text.exc = "" /\ common # {}) =>
                 /\ diffed_from \in common
                 /\ \A n \in common \ {diffed_from} :
                       diffed_from \notin Ancestors(parents, n)
                 /\ diff_text.val = git_diff(parents, diffed_from, head_commit)
                 /\ (diff_text.val.added \cup diff_text.val.removed) \cap base_only = {}
                 /\ diff_text.val.added =
                       Tree(parents, head_commit) \ Tree(parents, diffed_from)
                 /\ warnings = <<>>
           /\ (diff_text.exc = "" /\ common = {}) =>
                 /\ diffed_from = base_commit
                 /\ diff_text.val = git_diff(parents, base_commit, head_commit)
                 /\ Len(warnings) = 1

\* the base branch went on after the head branch left it
C22_Witness ==
    /\ phase = "git" /\ diff_text.exc = ""
    /\ parents[2] = {1} /\ parents[3] = {1}
    /\ base_commit = 2 /\ head_commit = 3
    /\ diffed_from = 1
    /\ diff_text.val = [added |-> {3}, removed |-> {}]

----------------------------------------------------------------------------
(* The annotated file of an empty diff *)

\* C23 (as stated): with an empty diff text the output has one row per line
\* of the file, in order, each a context row that carries the line's number
\* both as its old and as its new number, and no added or removed row.
C23_EmptyDiffRows ==
    (phase = "annotated" /\ DiffIsEmpty) =>
        /\ Len(annotated) = Len(NewLines(script))
        /\ \A k \in 1..Len(annotated) :
              /\ annotated[k].marker = " "
              /\ annotated[k].text = NewLines(script)[k].text
              /\ annotated[k].new = k
              /\ annotated[k].old = k

----------------------------------------------------------------------------
(* Tier order of context resolution *)

\* the changed files in the order the loops of lines 275-279 take them
TierOrder == file_tiers[1] \o file_tiers[2] \o file_tiers[3]

\* the number of files in the tiers before tier i
RECURSIVE FilesBefore(_)
FilesBefore(i) == IF i <= 1 THEN 0 ELSE FilesBefore(i - 1) + Len(file_tiers[i - 1])

\* every changed file is in exactly one tier, once; the calls made so far
\* are the calls for the first files of the tier order, one each, and the
\* next call is for the file that follows them
C24_State ==
    (phase = "resolver") =>
        /\ Len(TierOrder) = Len(changed_files)
        /\ \A f \in SeqToSet(changed_files) :
              Cardinality({ k \in 1..Len(TierOrder) : TierOrder[k] = f }) = 1
        /\ oracle_calls <= Len(TierOrder)
        /\ pc = "resolve" =>
              /\ tier_i \in 1..3
              /\ file_j \in 1..Len(file_tiers[tier_i])
              /\ oracle_calls = FilesBefore(tier_i) + file_j - 1
              /\ TierOrder[oracle_calls + 1] = file_tiers[tier_i][file_j]

\* a round leaves in the one ContextSet, which the next call is given, all
\* that the calls before were given and the files found for its own file
C24_Round ==
    (phase = "resolver" /\ oracle_calls' = oracle_calls + 1) =>
        /\ final_context_content \subseteq final_context_content'
        /\ last_found' \subseteq final_context_content'
        /\ pc' = "resolve" =>
              \/ tier_i' > tier_i
              \/ tier_i' = tier_i /\ file_j' = file_j + 1

----------------------------------------------------------------------------
(* jira_client.add_comment and _remove_previous_ai_comments, lines 110-232 *)
(* The robot sign of the markers is written "&".                           *)

MaxComments == 2

\* maxResults of the listing request, line 114
MaxResults == 100

\* JIRA_AI_COMMENT_TAG's default, line 163, and the legacy markers
primary_marker_raw == <<"*", "&", " ", "A", "I", " ", "A", "s", "s", "e", "s", "s", "m", "e", "n", "t", " ", "C", "o", "m", "p", "l", "e", "t", "e", "*">>
legacy_markers == <<<<"&", " ", "A", "I", " ", "A", "s", "s", "e", "s", "s", "m", "e", "n", "t", " ", "C", "o", "m", "p", "l", "e", "t", "e">>, <<"&", " ", "A", "I", " ", "A", "s", "s", "e", "s", "s", "m", "e", "n", "t">>>>
all_markers ==
    <<primary_marker_raw>> \o SelectSeq(legacy_markers, LAMBDA m : m # primary_marker_raw)

\* a comment body: Jira wiki text or an ADF document (blocks of text nodes)
StrBody(text) == [kind |-> "str", text |-> text, content |-> <<>>]
AdfBody(content) == [kind |-> "adf", text |-> <<>>, content |-> content]

\* str.replace("*", "")
RemoveStars(s) == SelectSeq(s, LAMBDA c : c # "*")

\* str.strip(): blanks and line ends
IsSpace(c) == c \in {" ", "\n"}
RECURSIVE PyLStrip(_)
PyLStrip(s) == IF s # <<>> /\ IsSpace(Head(s)) THEN PyLStrip(Tail(s)) ELSE s
RECURSIVE PyRStrip(_)
PyRStrip(s) ==
    IF s # <<>> /\ IsSpace(s[Len(s)]) THEN PyRStrip(SubSeq(s, 1, Len(s) - 1)) ELSE s
PyStrip(s) == PyRStrip(PyLStrip(s))

\* s.splitlines()[0] of a text that is not empty
FirstLine(s) ==
    IF \E k \in 1..Len(s) : s[k] = "\n"
    THEN SubSeq(s, 1, (CHOOSE k \in 1..Len(s) :
                          s[k] = "\n" /\ \A m \in 1..(k - 1) : s[m] # "\n") - 1)
    ELSE s

\* "\n".join(parts)
RECURSIVE JoinLines(_)
JoinLines(parts) ==
    IF parts = <<>> THEN <<>>
    ELSE IF Len(parts) = 1 THEN parts[1]
    ELSE parts[1] \o <<"\n">> \o JoinLines(Tail(parts))

RECURSIVE Flatten(_)
Flatten(blocks) == IF blocks = <<>> THEN <<>> ELSE Head(blocks) \o Flatten(Tail(blocks))

\* lines 85-98; a text node without text is not in the model
_extract_text_from_adf(body) ==
    IF body.kind = "str" THEN body.text ELSE JoinLines(Flatten(body.content))

\* line 123
_norm(txt) == PyStrip(RemoveStars(txt))

\* line 132: the comment is one of the assessment's
MarkerMatch(body) ==
    \E k \in 1..Len(all_markers) :
        Contains(_norm(_extract_text_from_adf(body)), _norm(all_markers[k]))

\* lines 175-206: payload_body
WithMarker(comment) ==
    IF comment.kind = "str"
    THEN LET first_line == IF PyStrip(comment.text) # <<>>
                           THEN FirstLine(PyStrip(comment.text)) ELSE <<>>
         IN IF ~\E k \in 1..Len(all_markers) :
                   StartsWith(RemoveStars(first_line), RemoveStars(all_markers[k]))
            THEN StrBody(primary_marker_raw \o <<"\n", "\n">> \o comment.text)
            ELSE comment
    ELSE LET content == comment.content
             has_marker ==
                 /\ content # <<>> /\ content[1] # <<>>
                 /\ StartsWith(PyStrip(content[1][1]), RemoveStars(primary_marker_raw))
         IN IF has_marker THEN comment
            ELSE AdfBody(<< <<RemoveStars(primary_marker_raw)>> >> \o content)

\* the accounts: the one the token belongs to and another
Me == "acct-1"
Other == "acct-2"
NoAccount == "None"

Comment(id, author, body) == [id |-> id, author |-> author, body |-> body]

\* bodies of the comments an issue may already have
EarlierBodies ==
    {StrBody(<<"&", " ", "A", "I", " ", "A", "s", "s", "e", "s", "s", "m", "e", "n", "t", "\n", "O", "l", "d">>), StrBody(<<"*", "&", " ", "A", "I", " ", "A", "s", "s", "e", "s", "s", "m", "e", "n", "t", " ", "C", "o", "m", "p", "l", "e", "t", "e", "*", "\n", "P", "r", "e", "v">>),
     StrBody(<<"L", "G", "T", "M">>), AdfBody(<< <<<<"&", " ", "A", "I", " ", "A", "s", "s", "e", "s", "s", "m", "e", "n", "t", " ", "C", "o", "m", "p", "l", "e", "t", "e">>>>, <<<<"P", "r", "e", "v">>>> >>)}
EarlierKinds ==
    { [author |-> a, body |-> b] : a \in {Me}, b \in EarlierBodies }
    \cup {[author |-> Other, body |-> StrBody(<<"*", "&", " ", "A", "I", " ", "A", "s", "s", "e", "s", "s", "m", "e", "n", "t", " ", "C", "o", "m", "p", "l", "e", "t", "e", "*", "\n", "P", "r", "e", "v">>)]}

\* the issues: jira_older comments of other people, then up to MaxComments
\* comments numbered in the order they were made
EarlierComments(older) ==
    UNION { { [k \in 1..n |-> Comment(older + k, q[k].author, q[k].body)] :
                q \in [1..n -> EarlierKinds] } : n \in 0..MaxComments }

\* the comment arguments
CommentArgs ==
    {StrBody(<<"R", "e", "l", "e", "v", "a", "n", "c", "e", ":", " ", "*", "8", "5", "%", "*">>),
     StrBody(<<"*", "&", " ", "A", "I", " ", "A", "s", "s", "e", "s", "s", "m", "e", "n", "t", " ", "C", "o", "m", "p", "l", "e", "t", "e", "*", "\n", "\n", "R", "e", "l", "e", "v", "a", "n", "c", "e">>),
     StrBody(<<"&", " ", "*", "*", "A", "I", " ", "A", "s", "s", "e", "s", "s", "m", "e", "n", "t", " ", "C", "o", "m", "p", "l", "e", "t", "e", " ", "f", "o", "r", " ", "t", "h", "i", "s", " ", "P", "R", "*", "*", "\n", "\n", "x">>),
     StrBody(<<"N", "o", "t", "e", "\n", "*", "&", " ", "A", "I", " ", "A", "s", "s", "e", "s", "s", "m", "e", "n", "t", " ", "C", "o", "m", "p", "l", "e", "t", "e", "*">>),
     StrBody(<<" ", "*", "&", " ", "A", "I", " ", "A", "s", "s", "e", "s", "s", "m", "e", "n", "t", " ", "C", "o", "m", "p", "l", "e", "t", "e", "*", "\n", "x">>),
     StrBody(<<>>),
     AdfBody(<< <<<<"S", "u", "m", "m", "a", "r", "y">>>>, <<<<"R", "e", "l", "e", "v", "a", "n", "c", "e">>>> >>),
     AdfBody(<< <<<<"&", " ", "A", "I", " ", "A", "s", "s", "e", "s", "s", "m", "e", "n", "t", " ", "C", "o", "m", "p", "l", "e", "t", "e">>>>, <<<<"x">>>> >>)}

\* lines 113-119: the comments the listing request returns
Listed(older, comments, http) ==
    IF http = "list_fails" THEN <<>>
    ELSE IF older >= MaxResults THEN <<>>
    ELSE SubSeq(comments, 1, IF Len(comments) <= MaxResults - older
                             THEN Len(comments) ELSE MaxResults - older)

\* lines 127-145: the comments whose delete request is sent
ToDelete(listed, account_id) ==
    SelectSeq(listed, LAMBDA c :
        MarkerMatch(c.body) /\ (account_id = NoAccount \/ c.author = account_id))

InitJira ==
    /\ phase = "jira"
    /\ jira_pc = "call"
    /\ jira_older \in {0, MaxResults - 1, MaxResults}
    /\ jira_comments \in EarlierComments(jira_older)
    /\ jira_http \in {"ok", "myself_fails", "list_fails", "delete_fails", "post_fails"}
    /\ comment_in \in CommentArgs
    /\ jira_deleted = <<>>
    /\ jira_posted = <<>>
    /\ ResolverIdle /\ AnnotIdle /\ ReviewIdle
    /\ IssueIdle /\ ExtractIdle /\ DepsIdle /\ FindIdle
    /\ RunIdle /\ GitIdle /\ PubIdle

\* lines 151-232
AddComment ==
    /\ phase = "jira"
    /\ jira_pc = "call"
    /\ LET account_id == IF jira_http = "myself_fails" THEN NoAccount ELSE Me
           sent == ToDelete(Listed(jira_older, jira_comments, jira_http), account_id)
           gone == IF jira_http = "delete_fails" THEN <<>> ELSE sent
           kept == SelectSeq(jira_comments,
                             LAMBDA c : \A k \in 1..Len(gone) : gone[k].id # c.id)
           payload_body == WithMarker(comment_in)
           new_id == jira_older + Len(jira_comments) + 1
       IN /\ jira_deleted' = gone
          /\ IF jira_http = "post_fails"
             THEN /\ jira_posted' = <<>>
                  /\ jira_comments' = kept
             ELSE /\ jira_posted' = <<payload_body>>
                  /\ jira_comments' = Append(kept, Comment(new_id, Me, payload_body))
    /\ jira_pc' = "done"
    /\ UNCHANGED <<phase, jira_older, jira_http, comment_in,
                   resolverVars, annotVars, reviewVars, issueVars, extractVars,
                   depsVars, findVars, runVars, gitVars, pubVars>>

NextJira == AddComment

SpecJira == InitJira /\ [][NextJira]_vars

\* str.count
RECURSIVE TextCount(_, _)
TextCount(s, m) ==
    IF Len(s) < Len(m) THEN 0
    ELSE IF StartsWith(s, m) THEN 1 + TextCount(SubSeq(s, Len(m) + 1, Len(s)), m)
    ELSE TextCount(Tail(s), m)

\* C27 (as stated): when every request of the call succeeds, the issue has
\* afterwards exactly one comment of the current account that carries an
\* assessment marker, the one comment the call posted; its text starts with
\* the marker (the stars of bold text aside) and holds the marker once.
C27_ExactlyOneMarkerComment ==
    (phase = "jira" /\ jira_pc = "done" /\ jira_http = "ok") =>
        LET mine == SelectSeq(jira_comments,
                              LAMBDA c : c.author = Me /\ MarkerMatch(c.body))
            marker == RemoveStars(primary_marker_raw)
        IN /\ Len(jira_posted) = 1
           /\ Len(mine) = 1
           /\ mine[1].body = jira_posted[1]
           /\ LET text == RemoveStars(_extract_text_from_adf(jira_posted[1]))
              IN /\ StartsWith(text, marker)
                 /\ TextCount(text, marker) = 1

----------------------------------------------------------------------------
(* The publishers: github_client.handle_pr_results (lines 35-152) and      *)
(* bitbucket_client.cleanup_and_post_all_comments (lines 45-187)           *)

MaxRuns == 2
MaxIssues == 1
MaxReplies == 2

\* the authors: the account the agent publishes as ("github-actions[bot]",
\* the account of BITBUCKET_APP_USERNAME) and anyone else
Bot == "bot"
Human == "human"

\* a comment of the pull request; parent is 0 for a comment that replies to
\* none (in_reply_to_id, comment['parent']['id'])
PrComment(id, author, parent) == [id |-> id, author |-> author, parent |-> parent]

\* the comments a pull request may have before the first run
InitialComments ==
    {{}}
    \cup { {PrComment(1, a, 0)} : a \in {Bot, Human} }
    \cup { {PrComment(1, a, 0), PrComment(2, b, q)} :
             a \in {Bot, Human}, b \in {Bot, Human}, q \in {0, 1} }

\* github_client.py:82, bitbucket_client.py:78-82
parent_comment_ids(comments) == { c.parent : c \in { d \in comments : d.parent # 0 } }

\* faulty variant: every comment of the bot is deleted
comments_to_delete_all(comments) == { c \in comments : c.author = Bot }

\* github_client.py:84-87, bitbucket_client.py:73-87
comments_to_delete(comments) ==
    { c \in comments : c.author = Bot /\ c.id \notin parent_comment_ids(comments) }

\* n new comments of the bot that reply to none
NewComments(ever, n) ==
    { PrComment(Cardinality(ever) + k, Bot, 0) : k \in 1..n }

Review(user, state) == [user |-> user, state |-> state]

\* github_client.py:117-123: the bot's change requests are dismissed
Dismissed(reviews) ==
    [k \in 1..Len(reviews) |->
        IF reviews[k].user = Bot /\ reviews[k].state = "CHANGES_REQUESTED"
        THEN Review(Bot, "DISMISSED") ELSE reviews[k]]

InitPublish ==
    /\ phase = "publish"
    /\ pub_platform \in {"github", "bitbucket"}
    /\ pub_account_known \in BOOLEAN
    /\ pub_platform = "github" => pub_account_known
    /\ pub_comments \in InitialComments
    /\ pub_ever = pub_comments
    /\ IF pub_platform = "github"
       THEN /\ pub_reviews \in {<<>>, <<Review(Bot, "CHANGES_REQUESTED")>>,
                                <<Review(Bot, "APPROVED")>>}
            /\ pub_approved = FALSE
       ELSE /\ pub_reviews = <<>>
            /\ pub_approved \in BOOLEAN
    /\ pub_runs = 0
    /\ pub_issues = -1
    /\ ResolverIdle /\ AnnotIdle /\ ReviewIdle
    /\ IssueIdle /\ ExtractIdle /\ DepsIdle /\ FindIdle
    /\ RunIdle /\ GitIdle /\ JiraIdle

\* someone answers a comment of the pull request
Reply ==
    /\ phase = "publish"
    /\ Cardinality({ c \in pub_ever : c.parent # 0 }) < MaxReplies
    /\ \E c \in pub_comments, a \in {Bot, Human} :
          LET r == PrComment(Cardinality(pub_ever) + 1, a, c.id)
          IN /\ pub_comments' = pub_comments \cup {r}
             /\ pub_ever' = pub_ever \cup {r}
    /\ UNCHANGED <<phase, pub_platform, pub_account_known, pub_reviews, pub_approved,
                   pub_runs, pub_issues,
                   resolverVars, annotVars, reviewVars, issueVars, extractVars,
                   depsVars, findVars, runVars, gitVars, jiraVars>>

\* github_client.handle_pr_results, lines 35-61, with n issues; `refused`:
\* GitHub answers the review with "comments must be a list of at most ..."
GithubRun ==
    /\ phase = "publish"
    /\ pub_platform = "github"
    /\ pub_runs < MaxRuns
    /\ \E n \in 0..MaxIssues, refused \in BOOLEAN :
          LET kept == pub_comments \ comments_to_delete(pub_comments)   \* line 50
              posted == IF n > 0 /\ ~refused THEN NewComments(pub_ever, n) ELSE {}
          IN /\ n = 0 => ~refused
             /\ pub_comments' = kept \cup posted
             /\ pub_ever' = pub_ever \cup posted
             /\ pub_reviews' =
                   IF n > 0
                   THEN IF refused THEN pub_reviews           \* lines 150-152
                        ELSE Append(pub_reviews, Review(Bot, "CHANGES_REQUESTED"))
                   ELSE Append(Dismissed(pub_reviews), Review(Bot, "APPROVED"))
             /\ pub_issues' = n
    /\ pub_runs' = pub_runs + 1
    /\ UNCHANGED <<phase, pub_platform, pub_account_known, pub_approved,
                   resolverVars, annotVars, reviewVars, issueVars, extractVars,
                   depsVars, findVars, runVars, gitVars, jiraVars>>

\* bitbucket_client.cleanup_and_post_all_comments, lines 45-130, with n
\* issues: the comments of _publish_without_cleanup are one for each issue
\* and, when there is an issue, the summary
BitbucketRun ==
    /\ phase = "publish"
    /\ pub_platform = "bitbucket"
    /\ pub_runs < MaxRuns
    /\ \E n \in 0..MaxIssues :
          LET published == IF n > 0 THEN n + 1 ELSE 0
          IN /\ IF ~pub_account_known
                THEN \* lines 54-57
                     /\ pub_comments' = pub_comments \cup NewComments(pub_ever, published)
                     /\ pub_ever' = pub_ever \cup NewComments(pub_ever, published)
                     /\ UNCHANGED pub_approved
                ELSE LET kept == pub_comments \ comments_to_delete(pub_comments)
                         posted == NewComments(pub_ever,
                                               IF n = 0 THEN 1 ELSE published)
                     IN /\ pub_comments' = kept \cup posted
                        /\ pub_ever' = pub_ever \cup posted
                        /\ pub_approved' = (n = 0)            \* lines 111-125
             /\ pub_issues' = n
    /\ pub_runs' = pub_runs + 1
    /\ UNCHANGED <<phase, pub_platform, pub_account_known, pub_reviews,
                   resolverVars, annotVars, reviewVars, issueVars, extractVars,
                   depsVars, findVars, runVars, gitVars, jiraVars>>

NextPublish == Reply \/ GithubRun \/ BitbucketRun

SpecPublish == InitPublish /\ [][NextPublish]_vars

\* a comment of someone else, and a comment of the bot that someone else
\* answered, is on the pull request as long as the pull request is
C28_Kept ==
    (phase = "publish") =>
        \A c \in pub_ever :
            (c.author = Human
                \/ \E r \in pub_ever : r.parent = c.id /\ r.author = Human)
            => c \in pub_comments

\* a step removes only comments of the bot that no comment replies to
C28_Step ==
    \A c \in pub_comments :
        c \notin pub_comments' =>
            /\ c.author = Bot
            /\ \A r \in pub_comments : r.parent # c.id

BotReviews == SelectSeq(pub_reviews, LAMBDA r : r.user = Bot /\ r.state # "DISMISSED")

\* the pull request carries the agent's approval
AgentApproved ==
    IF pub_platform = "github"
    THEN BotReviews # <<>> /\ BotReviews[Len(BotReviews)].state = "APPROVED"
    ELSE pub_approved

\* C29 (as stated): after a run the pull request is approved by the agent
\* exactly when the run had no issue; without issues no change request of
\* the bot is left undismissed, with issues the pull request ends with the
\* bot's change request (GitHub) or without the agent's approval (Bitbucket).
C29_ApprovedIffNoIssues ==
    (phase = "publish" /\ pub_runs > 0) =>
        /\ AgentApproved <=> pub_issues = 0
        /\ (pub_platform = "github" /\ pub_issues = 0) =>
              \A k \in 1..Len(pub_reviews) :
                  ~(pub_reviews[k].user = Bot
                      /\ pub_reviews[k].state = "CHANGES_REQUESTED")
        /\ (pub_platform = "github" /\ pub_issues > 0) =>
              /\ BotReviews # <<>>
              /\ BotReviews[Len(BotReviews)].state = "CHANGES_REQUESTED"
        /\ (pub_platform = "bitbucket" /\ pub_issues > 0) => ~pub_approved

====
